---------------------------- MODULE Spec2Model ----------------------------
(***************************************************************************)
(* Verification model of the bluchat mesh messaging layer.                 *)
(*                                                                         *)
(*   SpecCodec    the wire codec (utils/message-protocol.ts)               *)
(*   SpecInbound  BluetoothService handling what its peers send            *)
(*   SpecRelay    BluetoothService.relayMessage and its sends              *)
(*   SpecChannel  the channel lifecycle of ChannelService                  *)
(*   SpecMesh     the MeshCoordinators of two tabs and their messages      *)
(*   SpecSilent   the same over three sync intervals, a third tab leaving  *)
(*   SpecScan     the ScanningOptimizer and its optimization cycles        *)
(*   SpecScanning BluetoothService.startScanning and stopScanning          *)
(*   SpecScanMode the same while the optimizer changes the scan mode       *)
(*   SpecGraph    partitions, bridge nodes and paths of a given graph       *)
(*   SpecCrypto   CryptoService: channel encryption, key exchange, wipe     *)
(*   SpecLife     one MeshCoordinator from constructor to destroy()         *)
(*   SpecConnect  BluetoothService.connectToDevice, await by await          *)
(*   SpecDedup    the dedup set over receive, relay and disconnect()        *)
(*   SpecBroadcast BluetoothService.broadcastMessage and its sends          *)
(*                                                                         *)
(* Strings are sequences of byte codes, packets are sequences of bytes.    *)
(* An optional field is a sequence of length 0 (undefined) or 1 (value).   *)
(***************************************************************************)
EXTENDS Integers, Sequences, FiniteSets, TLC

\* ------------------------------------------------------------------------
\* Generic helpers
\* ------------------------------------------------------------------------

Min(a, b) == IF a <= b THEN a ELSE b

SetMin(S) == CHOOSE x \in S : \A y \in S : x <= y

\* Math.ceil(a / b) for a >= 0, b > 0
CeilDiv(a, b) == (a + b - 1) \div b

\* n copies of the byte c
Rep(c, n) == [i \in 1..n |-> c]

\* n bytes alternating between c and d (no two neighbours equal)
Alt(c, d, n) == [i \in 1..n |-> IF i % 2 = 1 THEN c ELSE d]

\* Uint8Array(length) filled from bytes, zero padded
ZeroPad(bytes, length) ==
  [i \in 1..length |-> IF i <= Len(bytes) THEN bytes[i] ELSE 0]

\* Array.prototype.slice(start, end) with 0-based, end-exclusive bounds
Slice(s, start, end) == SubSeq(s, start + 1, Min(end, Len(s)))

\* DataView.setUint8: the value is stored modulo 2^8
Uint8(n) == n % 256

\* ------------------------------------------------------------------------
\* Program constants of the codec
\* ------------------------------------------------------------------------

VERSION == 1
TYPE_TEXT == 1
TYPE_FRAGMENT == 7
TYPE_KEY_EXCHANGE == 8
MAX_PACKET_SIZE == 512
HEADER_SIZE == 32
DEFAULT_TTL == 7
COMPRESS_MIN == 64
TS_MODULUS == 65536
ID_WIDTH == 16
SENDER_WIDTH == 8

\* ------------------------------------------------------------------------
\* Bounds of the codec inputs
\* ------------------------------------------------------------------------

\* length of the repetitive (compressible) text
RunTextLen == 100
\* length of a repetitive text whose raw payload exceeds one packet
LongRunTextLen == 600
\* length of the incompressible text that needs two or three fragments
MultiFragLen == 1000
\* length of the incompressible text that needs more than 255 fragments
HugeTextLen == 122400

\* ------------------------------------------------------------------------
\* lz4js (library): a framed lossless compressor.  The model keeps what the
\* codec relies on: a frame starts with the LZ4 magic number, decompress
\* inverts compress, decompress throws on bytes that are not a frame, and
\* incompressible input is stored verbatim behind the frame header.  The
\* compressed block is a run-length coding (count, byte) with count <= 255.
\* ------------------------------------------------------------------------

LZ4_MAGIC == <<4, 34, 77, 24>>
BLOCK_STORED == 0
BLOCK_PACKED == 1
MAX_RUN == 255

RunStarts(d) == {i \in 1..Len(d) : i = 1 \/ d[i] # d[i - 1]}

\* length of the run that starts at d[1], capped at MAX_RUN
FirstRunLen(d) ==
  LET stop == {i \in 2..Min(Len(d), MAX_RUN + 1) : d[i] # d[1]}
  IN  IF stop = {} THEN Min(Len(d), MAX_RUN) ELSE SetMin(stop) - 1

RECURSIVE RunLengthEncode(_)
RunLengthEncode(d) ==
  IF d = <<>> THEN <<>>
  ELSE LET n == FirstRunLen(d)
       IN  <<n, d[1]>> \o RunLengthEncode(SubSeq(d, n + 1, Len(d)))

RECURSIVE RunLengthDecode(_)
RunLengthDecode(c) ==
  IF Len(c) < 2 THEN <<>>
  ELSE Rep(c[2], c[1]) \o RunLengthDecode(SubSeq(c, 3, Len(c)))

Lz4Compress(data) ==
  IF 2 * Cardinality(RunStarts(data)) >= Len(data)
  THEN LZ4_MAGIC \o <<BLOCK_STORED>> \o data
  ELSE LZ4_MAGIC \o <<BLOCK_PACKED>> \o RunLengthEncode(data)

Lz4IsFrame(data) ==
  /\ Len(data) >= Len(LZ4_MAGIC) + 1
  /\ SubSeq(data, 1, Len(LZ4_MAGIC)) = LZ4_MAGIC

\* defined only on frames; lz4.decompress throws otherwise
Lz4Decompress(data) ==
  LET body == SubSeq(data, Len(LZ4_MAGIC) + 2, Len(data))
  IN  IF data[Len(LZ4_MAGIC) + 1] = BLOCK_STORED THEN body
      ELSE RunLengthDecode(body)

\* MessageProtocol.compress
compress(data) ==
  IF Len(data) < COMPRESS_MIN THEN data
  ELSE LET compressed == Lz4Compress(data)
       IN  IF Len(compressed) < Len(data) THEN compressed ELSE data

\* MessageProtocol.decompress: the raw bytes are kept when lz4 throws
decompress(data) ==
  IF Lz4IsFrame(data) THEN Lz4Decompress(data) ELSE data


\* ------------------------------------------------------------------------
\* Messages.  text, encrypted and signature are optional.
\* ------------------------------------------------------------------------

Undefined == <<>>
Some(v) == <<v>>

NoMessage ==
  [id |-> <<>>, sender |-> <<>>, channel |-> <<>>, text |-> Undefined,
   encrypted |-> Undefined, signature |-> Undefined, ttl |-> 0, timestamp |-> 0]

\* ------------------------------------------------------------------------
\* Payload serialisation.  JSON.stringify writes the fields in the order
\* id, timestamp, channel, text, encrypted, signature and leaves out the
\* undefined ones; JSON.parse restores what was written.  Each member is
\* modelled as <key byte> value <separator>; the nonce and the ciphertext
\* of the encrypted object are joined by a second separator.
\* ------------------------------------------------------------------------

KEY_ID == 105
KEY_TIMESTAMP == 116
KEY_CHANNEL == 99
KEY_TEXT == 120
KEY_ENCRYPTED == 101
KEY_SIGNATURE == 115
MEMBER_END == 44
PART_END == 58
DIGIT_ZERO == 48

RECURSIVE Digits(_)
Digits(n) ==
  IF n < 10 THEN <<DIGIT_ZERO + n>>
  ELSE Digits(n \div 10) \o <<DIGIT_ZERO + (n % 10)>>

RECURSIVE ParseDigits(_)
ParseDigits(s) ==
  IF s = <<>> THEN 0
  ELSE 10 * ParseDigits(SubSeq(s, 1, Len(s) - 1)) + (s[Len(s)] - DIGIT_ZERO)

Member(key, value) == <<key>> \o value \o <<MEMBER_END>>

OptionalMember(key, opt) ==
  IF opt = Undefined THEN <<>> ELSE Member(key, opt[1])

\* MessageProtocol.encodePayload
encodePayload(message) ==
  Member(KEY_ID, message.id)
    \o Member(KEY_TIMESTAMP, Digits(message.timestamp))
    \o Member(KEY_CHANNEL, message.channel)
    \o OptionalMember(KEY_TEXT, message.text)
    \o (IF message.encrypted = Undefined THEN <<>>
        ELSE Member(KEY_ENCRYPTED,
                    message.encrypted[1].nonce \o <<PART_END>>
                      \o message.encrypted[1].ciphertext))
    \o OptionalMember(KEY_SIGNATURE, message.signature)

\* the value written under key, as an optional
MemberValue(data, key) ==
  LET ends   == {i \in 1..Len(data) : data[i] = MEMBER_END}
      starts == {i \in 1..Len(data) :
                   /\ data[i] = key
                   /\ i = 1 \/ (i - 1) \in ends}
  IN  IF starts = {} THEN Undefined
      ELSE LET s == SetMin(starts)
               e == SetMin({i \in ends : i > s})
           IN  Some(SubSeq(data, s + 1, e - 1))

ParseEncrypted(value) ==
  LET cut == SetMin({i \in 1..Len(value) : value[i] = PART_END})
  IN  [nonce |-> SubSeq(value, 1, cut - 1),
       ciphertext |-> SubSeq(value, cut + 1, Len(value))]

\* MessageProtocol.decodePayload: the members of the parsed object
decodePayload(data) ==
  LET enc == MemberValue(data, KEY_ENCRYPTED)
  IN  [id        |-> MemberValue(data, KEY_ID)[1],
       timestamp |-> ParseDigits(MemberValue(data, KEY_TIMESTAMP)[1]),
       channel   |-> MemberValue(data, KEY_CHANNEL)[1],
       text      |-> MemberValue(data, KEY_TEXT),
       encrypted |-> IF enc = Undefined THEN Undefined
                     ELSE Some(ParseEncrypted(enc[1])),
       signature |-> MemberValue(data, KEY_SIGNATURE)]

\* ------------------------------------------------------------------------
\* Packets
\* ------------------------------------------------------------------------

\* MessageProtocol.encodeId
encodeId(idString, length) ==
  IF idString = <<>> THEN Rep(0, length)
  ELSE ZeroPad(Slice(idString, 0, length), length)

\* MessageProtocol.decodeId
decodeId(idBytes) == SelectSeq(idBytes, LAMBDA b : b # 0)

\* message.ttl || 7
TtlOrDefault(ttl) == IF ttl = 0 THEN DEFAULT_TTL ELSE ttl

\* DataView.setUint16 (big endian) of Date.now() % 65536
RelativeTime(now) ==
  LET relativeTime == now % TS_MODULUS
  IN  <<relativeTime \div 256, relativeTime % 256>>

\* MessageProtocol.createPacket
createPacket(message, payload, isFragment, fragmentIndex, totalFragments, now) ==
  <<VERSION, IF isFragment THEN TYPE_FRAGMENT ELSE TYPE_TEXT>>
    \o encodeId(message.id, ID_WIDTH)
    \o encodeId(message.sender, SENDER_WIDTH)
    \o <<Uint8(fragmentIndex), Uint8(totalFragments)>>
    \o <<Uint8(TtlOrDefault(message.ttl)),
         IF message.encrypted # Undefined THEN 1 ELSE 0>>
    \o RelativeTime(now)
    \o payload

\* fragmentMessage cutting chunks of the full packet size, the header forgotten
fragmentMessageFullSizeChunks(message, payload, now) ==
  LET maxPayloadSize == MAX_PACKET_SIZE
      totalFragments == CeilDiv(Len(payload), maxPayloadSize)
  IN  [k \in 1..totalFragments |->
         LET i     == k - 1
             start == i * maxPayloadSize
             end   == Min(start + maxPayloadSize, Len(payload))
         IN  createPacket(message, Slice(payload, start, end), TRUE, i,
                          totalFragments, now)]

\* MessageProtocol.fragmentMessage
fragmentMessage(message, payload, now) ==
  LET maxPayloadSize == MAX_PACKET_SIZE - HEADER_SIZE
      totalFragments == CeilDiv(Len(payload), maxPayloadSize)
  IN  [k \in 1..totalFragments |->
         LET i     == k - 1
             start == i * maxPayloadSize
             end   == Min(start + maxPayloadSize, Len(payload))
         IN  createPacket(message, Slice(payload, start, end), TRUE, i,
                          totalFragments, now)]

\* MessageProtocol.encode
encode(message, now) ==
  LET payload    == encodePayload(message)
      compressed == compress(payload)
      totalSize  == HEADER_SIZE + Len(compressed)
  IN  IF totalSize <= MAX_PACKET_SIZE
      THEN <<createPacket(message, compressed, FALSE, 0, 1, now)>>
      ELSE fragmentMessage(message, compressed, now)

KEY_SIGN_PUBLIC == 112
KEY_BOX_PUBLIC == 98

\* MessageProtocol.createKeyExchange: of the header only the version and
\* the type are set, the rest stays as new Uint8Array left it
createKeyExchange(publicKey, boxPublicKey, now) ==
  <<VERSION, TYPE_KEY_EXCHANGE>>
    \o Rep(0, HEADER_SIZE - 2)
    \o Member(KEY_SIGN_PUBLIC, publicKey)
    \o Member(KEY_BOX_PUBLIC, boxPublicKey)
    \o Member(KEY_TIMESTAMP, Digits(now))

\* Header fields of a packet (byte offsets of the source, plus one)
PacketVersion(data) == data[1]
PacketType(data) == data[2]
PacketFragmentIndex(data) == data[27]
PacketFragmentCount(data) == data[28]
PacketTtl(data) == data[29]
PacketPayload(data) == Slice(data, HEADER_SIZE, Len(data))

\* MessageProtocol.expandTimestamp
expandTimestamp(relativeTime, now) ==
  LET currentRelative == now % TS_MODULUS
      timeDiff        == relativeTime - currentRelative
  IN  now + timeDiff

\* a decoder that takes a packet of any protocol version
AnyVersionSupported(data) == TRUE

\* the version check at the head of decode
VersionSupported(data) == PacketVersion(data) = VERSION

\* MessageProtocol.decode.  kind is "error" when decode throws, "fragment"
\* when it returns null, "message" when it returns the message in msg.
decode(data, now) ==
  IF ~VersionSupported(data)
  THEN [kind |-> "error", msg |-> NoMessage]
  ELSE IF PacketType(data) = TYPE_FRAGMENT
  THEN [kind |-> "fragment", msg |-> NoMessage]
  ELSE
    LET messageId   == decodeId(Slice(data, 2, 18))
        senderId    == decodeId(Slice(data, 18, 26))
        ttl         == data[29]
        isEncrypted == data[30] = 1
        timestamp   == data[31] * 256 + data[32]
        payload     == decompress(PacketPayload(data))
        message     == decodePayload(payload)
    IN  [kind |-> "message",
         msg  |-> [id        |-> messageId,
                   sender    |-> senderId,
                   channel   |-> message.channel,
                   text      |-> message.text,
                   encrypted |-> IF isEncrypted THEN message.encrypted
                                 ELSE Undefined,
                   signature |-> message.signature,
                   ttl       |-> ttl,
                   timestamp |-> expandTimestamp(timestamp, now)]]


\* ------------------------------------------------------------------------
\* State
\* ------------------------------------------------------------------------

VARIABLES
  now,        \* Date.now() in milliseconds
  input,      \* codec: the message given to encode, its text kept as a pattern
  packets,    \* codec: the packets encode returned
  decoded,    \* codec: what decode made of one of them
  phase,      \* codec: "idle", "encoded" or "decoded"
  connections,        \* relay: Map deviceId -> connection, in insertion order
  connects,           \* relay: number of connectToDevice calls so far
  disconnects,        \* relay: number of gattserverdisconnected events so far
  processedMessages,  \* relay: the dedup set
  meshRoutes,         \* relay: Map deviceId -> Set of senders
  timers,             \* relay: pending setTimeout callbacks
  timerSeq,           \* relay: number of setTimeout calls so far
  calls,              \* relay: the relayMessage invocations, running or returned
  attempts,           \* relay: per call, the sendToDevice calls it made
  events,             \* relay: the message-received events emitted
  arrivals,           \* relay: history of the inbound packets handled
  added,              \* relay: history, when each id last entered the dedup set
  channels,           \* channel: Map normalized name -> ChannelState
  channelTimers,      \* channel: pending setTimeout callbacks
  channelTimerSeq,    \* channel: number of setTimeout calls so far
  channelEvents,      \* channel: the events emitted
  channelCalls,       \* channel: history of the API calls and their outcome
  channelChanges,     \* channel: history of the assignments to a channel's state
  nodes,              \* mesh: per coordinator, Map node id -> MeshNode in insertion order
  status,             \* mesh: per coordinator, "running" or "destroyed"
  heartbeatDue,       \* mesh: per coordinator, when heartbeatInterval fires next
  syncDue,            \* mesh: per coordinator, when syncInterval fires next
  inbox,              \* mesh: per coordinator, the messages posted to it and not yet handled
  meshStep,           \* mesh: what the last step of a coordinator sent and emitted
  meshOps,            \* mesh: number of steps of the environment so far
  scanHistory,          \* scan: the ScanStats recorded, oldest first
  currentMode,          \* scan: the ScanMode in force
  scanEnv,              \* scan: battery level, charging, document.hidden, hour
  activeConnections,    \* scan: the connection counter
  lastConnectionTime,   \* scan: Date.now() of the last connection, 0 for none
  optimizationInterval, \* scan: when the interval fires next, 0 for null
  scanStep,             \* scan: number of optimization cycles, strategy of the last
  scanOps,              \* scan: number of calls and events so far
  isInitialized,  \* bluetooth: the flag set at the end of initializeService
  initializing,   \* bluetooth: initializeService has not ended yet
  isScanning,     \* bluetooth: the flag of startScanning and stopScanning
  scanInterval,   \* bluetooth: the handle kept for clearInterval, if any
  intervals,      \* bluetooth: the discovery-scan intervals that are active
  intervalSeq,    \* bluetooth: number of setInterval calls so far
  starts,         \* bluetooth: the startScanning calls and how they stand
  microtasks,     \* bluetooth: the calls whose await was resolved, in order
  stops,          \* bluetooth: number of stopScanning calls so far
  scans,          \* bluetooth: number of discovery scans performed
  periods,        \* bluetooth: per setInterval call, the period it was given
  graphNodes,     \* graph: the nodes under analysis
  graphRoutes,    \* graph: the routes given to the service worker's analysis
  graphAnswer,    \* graph: what the analysis returned
  signKeyPair,    \* crypto: the signing key pair by its number, 0 for null
  boxKeyPair,     \* crypto: the exchange key pair by its number, 0 for null
  keyPairSeq,     \* crypto: number of key pairs generated so far
  storedKeys,     \* crypto: the private keys in localStorage
  channelKeys,    \* crypto: Map cache key -> channel key, with the call that set it
  peerKeys,       \* crypto: Map peer public key -> shared secret
  deriving,       \* crypto: the calls waiting for scrypt, oldest first
  sealed,         \* crypto: what encryptForChannel returned, and for what
  opened,         \* crypto: how the last decryptFromChannel ended
  cryptoSeq,      \* crypto: number of calls so far
  wipedAt,        \* crypto: the last wipeKeys: its number, the pairs it found
  lifePhase,          \* life: "registering" or "initialized"
  lifeNodes,          \* life: the node table
  heartbeatInterval,  \* life: "null", "active" or "cleared"
  syncInterval,       \* life: "null", "active" or "cleared"
  broadcastChannel,   \* life: "open" or "closed"
  serviceWorker,      \* life: "null" or "active"
  destroyCalled,      \* life: destroy() was called
  lifeSent,           \* life: the messages that went out, and whether after destroy()
  beats,              \* life: the calls of broadcastHeartbeat and what they sent
  lifeEmitted,        \* life: the types of the events emitted
  workerInbox,        \* life: what the worker posted to the client, not yet handled
  lifeOps,            \* life: number of steps of the environment so far
  syncs,              \* life: number of firings of syncInterval so far
  partitionFound,     \* life: an analysis of the worker found two partitions or more
  linkCalls               \* link: the connectToDevice calls and how far each one got

codecVars == <<input, packets, decoded, phase>>

relayVars ==
  <<connections, connects, disconnects, processedMessages, meshRoutes, timers,
    timerSeq, calls, attempts, events, arrivals, added>>

channelVars ==
  <<channels, channelTimers, channelTimerSeq, channelEvents, channelCalls,
    channelChanges>>

meshVars == <<nodes, status, heartbeatDue, syncDue, inbox, meshStep, meshOps>>

scanVars ==
  <<scanHistory, currentMode, scanEnv, activeConnections, lastConnectionTime,
    optimizationInterval, scanStep, scanOps>>

bluetoothVars ==
  <<isInitialized, initializing, isScanning, scanInterval, intervals,
    intervalSeq, starts, microtasks, stops, scans, periods>>

graphVars == <<graphNodes, graphRoutes, graphAnswer>>

cryptoVars ==
  <<signKeyPair, boxKeyPair, keyPairSeq, storedKeys, channelKeys, peerKeys,
    deriving, sealed, opened, cryptoSeq, wipedAt>>

lifeVars ==
  <<lifePhase, lifeNodes, heartbeatInterval, syncInterval, broadcastChannel,
    serviceWorker, destroyCalled, lifeSent, beats, lifeEmitted, workerInbox,
    lifeOps, syncs, partitionFound>>

linkVars == <<linkCalls>>

vars == <<now, codecVars, relayVars, channelVars, meshVars, scanVars, bluetoothVars, graphVars, cryptoVars, lifeVars, linkVars>>

\* ------------------------------------------------------------------------
\* The codec on bounded inputs
\* ------------------------------------------------------------------------

\* identifier lengths: short, exactly the header field, and longer than it
\* (crypto.randomUUID() yields 36 characters)
ShortIdLen == 2
LongIdLen == 17
\* sender lengths around the 8-byte header field
ShortSenderLen == 3
LongSenderLen == 9
\* how far the text lengths range around the one-packet capacity
CapacityMargin == 2
\* clock steps taken between encode and decode
MaxTicks == 1
\* the clock when the codec run starts
StartTime == 70000

\* a string of n letters that differ from their neighbours
Letters(n) == [i \in 1..n |-> 97 + (i % 6)]

CHANNEL_PUBLIC == <<112, 117, 98, 108, 105, 99>>

CodecIds == {Letters(ShortIdLen), Letters(ID_WIDTH), Letters(LongIdLen)}

CodecSenders ==
  {<<>>, Letters(ShortSenderLen), Letters(SENDER_WIDTH), Letters(LongSenderLen)}

CodecTtls == {0, 1, 3, 7, 255}

SampleEncrypted == [nonce |-> <<110, 49>>, ciphertext |-> <<99, 116, 120>>]

\* A text pattern: len bytes alternating between a and b.  The state keeps
\* the pattern; the codec works on the bytes it stands for.
Pattern(a, b, len) == [a |-> a, b |-> b, len |-> len]

TextOf(pattern) == Alt(pattern.a, pattern.b, pattern.len)

ShortText == Pattern(104, 105, 2)

\* text only, encrypted only, signed text
CodecBodies ==
  {[text |-> Some(ShortText), encrypted |-> Undefined, signature |-> Undefined],
   [text |-> Undefined, encrypted |-> Some(SampleEncrypted), signature |-> Undefined],
   [text |-> Some(ShortText), encrypted |-> Undefined, signature |-> Some(<<115, 49>>)]}

MakeMessage(id, sender, body, ttl) ==
  [id |-> id, sender |-> sender, channel |-> CHANNEL_PUBLIC,
   text |-> body.text, encrypted |-> body.encrypted,
   signature |-> body.signature, ttl |-> ttl, timestamp |-> StartTime]

TextMessage(text) ==
  [id |-> Letters(ShortIdLen), sender |-> Letters(ShortSenderLen),
   channel |-> CHANNEL_PUBLIC, text |-> Some(text), encrypted |-> Undefined,
   signature |-> Undefined, ttl |-> DEFAULT_TTL, timestamp |-> StartTime]

\* the message an input stands for
MessageOf(in) ==
  [in EXCEPT !.text = IF in.text = Undefined THEN Undefined
                      ELSE Some(TextOf(in.text[1]))]

\* the longest incompressible text whose payload fits one packet
CapacityTextLen ==
  MAX_PACKET_SIZE - HEADER_SIZE
    - Len(encodePayload(MessageOf(TextMessage(Pattern(97, 98, 0)))))

CodecTexts ==
  {Pattern(97, 97, RunTextLen), Pattern(97, 97, LongRunTextLen),
   Pattern(97, 98, MultiFragLen), Pattern(97, 98, HugeTextLen)}
    \cup {Pattern(97, 98, CapacityTextLen + d) :
            d \in (0 - CapacityMargin)..CapacityMargin}

CodecInputs ==
  {MakeMessage(id, sender, body, ttl) :
     id \in CodecIds, sender \in CodecSenders, body \in CodecBodies, ttl \in CodecTtls}
    \cup {TextMessage(text) : text \in CodecTexts}


\* ------------------------------------------------------------------------
\* The relay engine of BluetoothService
\* ------------------------------------------------------------------------

\* lifetime of a dedup entry, in milliseconds
DEDUP_TTL == 300000
\* the relay is delayed by Math.random() * 1000 milliseconds
RELAY_JITTER == 1000
\* pause between the fragments of one relay
FRAGMENT_GAP == 30
BROADCAST_GAP == 50

\* bounds of the relay runs
MaxConnects == 3
MaxBroadcasts == 1
MaxInbound == 2
MaxCalls == 2
MaxWindows == 1
MaxDisconnects == 1
\* connections, disconnections, inbound packets and relayMessage calls together
MaxOps == 4

\* device ids of the radio peers
PeerB == <<66>>
PeerC == <<67>>
PeerD == <<68>>
RelayPeers == {PeerB, PeerC, PeerD}
\* the peers that offer no usable service and get a mock connection
MockPeers == {PeerD}
NoPeer == <<>>

\* the WebRTC peer id under which a mock connection is stored a second time
WebRtcIdOf(p) == <<119>> \o p

DeviceIds == RelayPeers \cup {WebRtcIdOf(p) : p \in RelayPeers}

RelayIds == {<<109, 49>>, <<109, 50>>}
RelaySender == <<112, 107>>

RelayMessage(id, ttl) ==
  [id |-> id, sender |-> RelaySender, channel |-> CHANNEL_PUBLIC,
   text |-> Some(<<104, 105>>), encrypted |-> Undefined,
   signature |-> Undefined, ttl |-> ttl, timestamp |-> 0]

\* a message that needs two fragments
LargeRelayMessage ==
  [RelayMessage(<<109, 49>>, 3) EXCEPT !.text = Some(Alt(97, 98, MAX_PACKET_SIZE))]

\* what relayMessage may be called with: the message and the peer to leave out
CallInputs ==
  {<<RelayMessage(<<109, 49>>, 3), PeerB>>, <<RelayMessage(<<109, 49>>, 1), NoPeer>>,
   <<RelayMessage(<<109, 49>>, 0), NoPeer>>, <<LargeRelayMessage, PeerB>>}

\* '{"type":"MESH_ANNOUNCE"}'
MESH_ANNOUNCE_JSON ==
  <<123, 34, 116, 121, 112, 101, 34, 58, 34, 77, 69, 83, 72, 95, 65, 78, 78,
    79, 85, 78, 67, 69, 34, 125>>

\* the type member when the bytes parse as JSON
JsonType(data) ==
  IF data = MESH_ANNOUNCE_JSON THEN "MESH_ANNOUNCE" ELSE "none"

WirePacket(id, ttl, t) == encode(RelayMessage(id, ttl), t)[1]

\* what a peer may send at time t: text packets, a packet of another
\* protocol version, a fragment, and a mesh announcement
InboundPackets(t) ==
  {WirePacket(<<109, 49>>, 3, t), WirePacket(<<109, 50>>, 1, t)}
    \cup {[WirePacket(<<109, 49>>, 3, t) EXCEPT ![1] = VERSION + 1],
          [WirePacket(<<109, 49>>, 3, t) EXCEPT ![2] = TYPE_FRAGMENT],
          MESH_ANNOUNCE_JSON}

RelayDelays == {0, RELAY_JITTER - 1}

NoEntry == [id |-> NoPeer, stamp |-> 0, hasChar |-> FALSE]

CallsMade == Cardinality({c \in 1..Len(calls) : calls[c].origin = "call"})

\* what the environment has done so far
Ops == connects + disconnects + Len(arrivals) + CallsMade

\* the place in insertion order of the next entry set by connectToDevice,
\* which sets at most two
NextStamp == 2 * connects + 1

ConnectedIds == {connections[i].id : i \in 1..Len(connections)}
ConnectedStamps == {connections[i].stamp : i \in 1..Len(connections)}

Timer(kind, seq, due, id, msg, from, call) ==
  [kind |-> kind, seq |-> seq, due |-> due, id |-> id, msg |-> msg,
   from |-> from, call |-> call]

\* an expiry callback that is due at once
ExpiryWithoutDelay(seq, id) == Timer("dedup", seq, now, id, NoMessage, NoPeer, 0)

\* the expiry relayMessage schedules for the id it added
RelayDedupTimer(seq, id) ==
  Timer("dedup", seq, now + DEDUP_TTL, id, NoMessage, NoPeer, 0)

\* an expiry callback of handleIncomingMessage that is due at once
InboundExpiryWithoutDelay(seq, id) ==
  Timer("dedup", seq, now, id, NoMessage, NoPeer, 0)

\* the expiry handleIncomingMessage schedules for the id it added
InboundDedupTimer(seq, id) ==
  Timer("dedup", seq, now + DEDUP_TTL, id, NoMessage, NoPeer, 0)
RelayTimer(seq, delay, msg, from) ==
  Timer("relay", seq, now + delay, msg.id, msg, from, 0)
\* the pause between two fragments: 30 ms in relayMessage, 50 ms in
\* broadcastMessage
GapOf(call) ==
  IF call \in 1..Len(calls) /\ calls[call].origin = "broadcast"
  THEN BROADCAST_GAP ELSE FRAGMENT_GAP
GapTimer(seq, call) ==
  Timer("gap", seq, now + GapOf(call), <<>>, NoMessage, NoPeer, call)

\* the callback the event loop runs next: earliest due, then oldest
IsNextTimer(t) ==
  /\ t \in timers
  /\ t.due <= now
  /\ \A u \in timers : u.due > t.due \/ (u.due = t.due /\ u.seq >= t.seq)

\* the relay engine before any connection
RelayIdle ==
  /\ connections = <<>>
  /\ connects = 0
  /\ disconnects = 0
  /\ processedMessages = {}
  /\ meshRoutes = [p \in DeviceIds |-> Undefined]
  /\ timers = {}
  /\ timerSeq = 0
  /\ calls = <<>>
  /\ attempts = <<>>
  /\ events = <<>>
  /\ arrivals = <<>>
  /\ added = [i \in RelayIds |-> 0 - 1]

\* connectToDevice, from connections.set on, for a device with a usable
\* characteristic
Connect(p) ==
  /\ p \notin ConnectedIds
  /\ connects < MaxConnects
  /\ Ops < MaxOps
  /\ connects' = connects + 1
  /\ connections' =
       Append(connections, [id |-> p, stamp |-> NextStamp, hasChar |-> TRUE])
  /\ meshRoutes' = [meshRoutes EXCEPT ![p] = Some({})]
  /\ UNCHANGED <<now, channelVars, linkVars, lifeVars, cryptoVars, graphVars, bluetoothVars, meshVars, scanVars, codecVars, disconnects, processedMessages, timers, timerSeq, calls,
                 attempts, events, arrivals, added>>

\* connectToDevice for a device without a usable service: the mock
\* connection (no characteristic) is stored under the device id and under
\* the WebRTC peer id
ConnectMock(p) ==
  /\ p \in MockPeers
  /\ p \notin ConnectedIds
  /\ connects < MaxConnects
  /\ Ops < MaxOps
  /\ connects' = connects + 1
  /\ LET entry == [id |-> p, stamp |-> NextStamp, hasChar |-> FALSE]
         alias == [id |-> WebRtcIdOf(p), stamp |-> NextStamp + 1, hasChar |-> FALSE]
     IN  connections' =
           IF WebRtcIdOf(p) \in ConnectedIds
           THEN Append(connections, entry)
           ELSE Append(connections, entry) \o <<alias>>
  /\ UNCHANGED <<now, channelVars, linkVars, lifeVars, cryptoVars, graphVars, bluetoothVars, meshVars, scanVars, codecVars, disconnects, processedMessages, meshRoutes, timers, timerSeq,
                 calls, attempts, events, arrivals, added>>

\* BluetoothService.handleDisconnection, run by the gattserverdisconnected
\* listener of a connected device
HandleDisconnection(p) ==
  /\ \E i \in 1..Len(connections) : connections[i].id = p /\ connections[i].hasChar
  /\ disconnects < MaxDisconnects
  /\ Ops < MaxOps
  /\ disconnects' = disconnects + 1
  /\ connections' = SelectSeq(connections, LAMBDA e : e.id # p)
  /\ meshRoutes' =
       [q \in DeviceIds |->
          IF q = p \/ meshRoutes[q] = Undefined THEN Undefined
          ELSE Some(meshRoutes[q][1] \ {p})]
  /\ activeConnections' =
       IF Len(connections') > 1 THEN Len(connections') - 1 ELSE 0
  /\ UNCHANGED <<now, channelVars, linkVars, lifeVars, cryptoVars, graphVars, bluetoothVars, meshVars, codecVars, connects, processedMessages, timers, timerSeq,
                 calls, attempts, events, arrivals, added, scanHistory,
                 currentMode, scanEnv, lastConnectionTime, optimizationInterval,
                 scanStep, scanOps>>


\* ------------------------------------------------------------------------
\* relayMessage.  A call is logged in calls with where its loop over the
\* connections stands: cur is the Map entry being written to, pkt the
\* packet, wait what the call is suspended on ("write": the pending
\* writeValue, "gap": the pause between fragments, "none": returned).
\* ------------------------------------------------------------------------

Attempt(call, entry, pkt, data, state) ==
  [call |-> call, to |-> entry.id, pkt |-> pkt, data |-> data, state |-> state]

LoopDone == [log |-> <<>>, cur |-> NoEntry, pkt |-> 0, wait |-> "none"]

RECURSIVE StartAttempt(_, _, _, _, _, _)
RECURSIVE NextPeer(_, _, _, _, _)

\* sendToDevice(connection, packets[pkt]) for the Map entry e
StartAttempt(conns, call, exclude, pkts, e, pkt) ==
  IF e.hasChar
  THEN [log |-> <<Attempt(call, e, pkt, pkts[pkt], "pending")>>,
        cur |-> e, pkt |-> pkt, wait |-> "write"]
  ELSE IF Len(pkts) > 1
  THEN [log |-> <<Attempt(call, e, pkt, pkts[pkt], "skipped")>>,
        cur |-> e, pkt |-> pkt, wait |-> "gap"]
  ELSE LET rest == NextPeer(conns, call, exclude, pkts, e.stamp)
       IN  [rest EXCEPT !.log = <<Attempt(call, e, pkt, pkts[pkt], "skipped")>> \o @]

\* the for-of loop moves to the next Map entry after the one stamped cursor
NextPeer(conns, call, exclude, pkts, cursor) ==
  LET later == {i \in 1..Len(conns) :
                  conns[i].stamp > cursor /\ conns[i].id # exclude}
  IN  IF later = {} THEN LoopDone
      ELSE StartAttempt(conns, call, exclude, pkts, conns[SetMin(later)], 1)

\* relayMessage(msg, exclude) up to its first suspension; pending is the
\* timer set the call starts from
RelayMessageFrom(msg, exclude, origin, pending) ==
  LET call   == Len(calls) + 1
      record == [id |-> msg.id, ttl |-> msg.ttl, exclude |-> exclude,
                 origin |-> origin, at |-> now, lastAdded |-> added[msg.id],
                 peers |-> ConnectedStamps, status |-> "duplicate",
                 packets |-> <<>>, cur |-> NoEntry, pkt |-> 0, wait |-> "none"]
  IN  IF msg.id \in processedMessages
      THEN /\ calls' = Append(calls, record)
           /\ attempts' = Append(attempts, <<>>)
           /\ timers' = pending
           /\ UNCHANGED <<processedMessages, timerSeq, added>>
      ELSE IF msg.ttl <= 0
      THEN /\ calls' = Append(calls, [record EXCEPT !.status = "expired"])
           /\ attempts' = Append(attempts, <<>>)
           /\ timers' = pending
           /\ UNCHANGED <<processedMessages, timerSeq, added>>
      ELSE
        LET relayMessage == [msg EXCEPT !.ttl = msg.ttl - 1]
            pkts == encode(relayMessage, now)
            loop == NextPeer(connections, call, exclude, pkts, 0)
        IN  /\ processedMessages' = processedMessages \cup {msg.id}
            /\ added' = [added EXCEPT ![msg.id] = now]
            /\ timers' = pending \cup {RelayDedupTimer(timerSeq + 1, msg.id)}
                           \cup (IF loop.wait = "gap"
                                 THEN {GapTimer(timerSeq + 2, call)} ELSE {})
            /\ timerSeq' = timerSeq + (IF loop.wait = "gap" THEN 2 ELSE 1)
            /\ attempts' = Append(attempts, loop.log)
            /\ calls' = Append(calls,
                 [record EXCEPT !.status = "relayed", !.packets = pkts,
                                !.cur = loop.cur, !.pkt = loop.pkt,
                                !.wait = loop.wait])

\* a caller invokes relayMessage (App calls it from its message-received
\* handler)
RelayMessageCall(msg, exclude) ==
  /\ CallsMade < MaxCalls
  /\ Ops < MaxOps
  /\ RelayMessageFrom(msg, exclude, "call", timers)
  /\ UNCHANGED <<now, channelVars, linkVars, lifeVars, cryptoVars, graphVars, bluetoothVars, meshVars, scanVars, codecVars, connections, connects, disconnects, meshRoutes, events,
                 arrivals>>

\* the delayed relay scheduled by handleIncomingMessage runs
RelayTimerFires ==
  \E t \in timers :
    /\ IsNextTimer(t)
    /\ t.kind = "relay"
    /\ RelayMessageFrom(t.msg, t.from, "timer", timers \ {t})
    /\ UNCHANGED <<now, channelVars, linkVars, lifeVars, cryptoVars, graphVars, bluetoothVars, meshVars, scanVars, codecVars, connections, connects, disconnects, meshRoutes, events,
                   arrivals>>

\* the expiry callback of a dedup entry runs
DedupTimerFires ==
  \E t \in timers :
    /\ IsNextTimer(t)
    /\ t.kind = "dedup"
    /\ processedMessages' = processedMessages \ {t.id}
    /\ timers' = timers \ {t}
    /\ UNCHANGED <<now, channelVars, linkVars, lifeVars, cryptoVars, graphVars, bluetoothVars, meshVars, scanVars, codecVars, connections, connects, disconnects, meshRoutes, timerSeq,
                   calls, attempts, events, arrivals, added>>

\* the loop of call c goes on with what next says
ResumeCall(c, next, pending) ==
  /\ calls' = [calls EXCEPT ![c].cur = next.cur, ![c].pkt = next.pkt,
                            ![c].wait = next.wait]
  /\ timers' = pending \cup (IF next.wait = "gap"
                             THEN {GapTimer(timerSeq + 1, c)} ELSE {})
  /\ timerSeq' = timerSeq + (IF next.wait = "gap" THEN 1 ELSE 0)

\* a loop that ends at the first rejected write
AbortAfterFailedWrite(conns, c) == LoopDone

\* the catch block of call c: the error is logged and the for-of loop goes on
\* with the next Map entry
AfterFailedWrite(conns, c) ==
  NextPeer(conns, c, calls[c].exclude, calls[c].packets, calls[c].cur.stamp)

PendingAttempt(c) ==
  CHOOSE k \in 1..Len(attempts[c]) : attempts[c][k].state = "pending"

\* characteristic.writeValue of call c settles: resolved (ok) or rejected.
\* A resolved write of a fragment is followed by the pause, a rejected one
\* by the catch block and the next peer.
WriteSettles(c, ok) ==
  /\ c \in 1..Len(calls)
  /\ calls[c].wait = "write"
  /\ ok => calls[c].cur.stamp \in ConnectedStamps
  /\ LET call == calls[c]
         k    == PendingAttempt(c)
         log  == [attempts[c] EXCEPT ![k].state = IF ok THEN "written" ELSE "failed"]
         next == IF ~ok THEN AfterFailedWrite(connections, c)
                 ELSE IF Len(call.packets) > 1
                 THEN [log |-> <<>>, cur |-> call.cur, pkt |-> call.pkt,
                       wait |-> "gap"]
                 ELSE NextPeer(connections, c, call.exclude, call.packets,
                               call.cur.stamp)
     IN  /\ attempts' = [attempts EXCEPT ![c] = log \o next.log]
         /\ ResumeCall(c, next, timers)
  /\ UNCHANGED <<now, channelVars, linkVars, lifeVars, cryptoVars, graphVars, bluetoothVars, meshVars, scanVars, codecVars, connections, connects, disconnects, processedMessages,
                 meshRoutes, events, arrivals, added>>

\* the pause between two fragments of call c ends
GapTimerFires ==
  \E t \in timers :
    /\ IsNextTimer(t)
    /\ t.kind = "gap"
    /\ LET c    == t.call
           call == calls[c]
           next == IF call.pkt < Len(call.packets)
                   THEN StartAttempt(connections, c, call.exclude, call.packets,
                                     call.cur, call.pkt + 1)
                   ELSE NextPeer(connections, c, call.exclude, call.packets,
                                 call.cur.stamp)
       IN  /\ attempts' = [attempts EXCEPT ![c] = @ \o next.log]
           /\ ResumeCall(c, next, timers \ {t})
    /\ UNCHANGED <<now, channelVars, linkVars, lifeVars, cryptoVars, graphVars, bluetoothVars, meshVars, scanVars, codecVars, connections, connects, disconnects, processedMessages,
                   meshRoutes, events, arrivals, added>>


\* ------------------------------------------------------------------------
\* broadcastMessage.  A call is logged in calls like a relayMessage call,
\* with origin "broadcast" and, in rtc, how the sends over the open WebRTC
\* data channels ended (none for no open channel).
\* ------------------------------------------------------------------------

\* what the application broadcasts: one packet, and two fragments
BroadcastInputs == {RelayMessage(<<109, 49>>, 3), LargeRelayMessage}

\* per open data channel, whether WebRTCService.sendMessage resolved
RtcSends == {<<>>, <<TRUE>>, <<FALSE>>, <<FALSE, TRUE>>}

BroadcastsMade ==
  Cardinality({c \in 1..Len(calls) : calls[c].origin = "broadcast"})

\* WebRTCService.broadcastMessage over the open channels: the sends that
\* resolved are counted and logged, and the call resolves
webrtcBroadcast(rtc) ==
  [successCount |-> Cardinality({i \in 1..Len(rtc) : rtc[i]}),
   resolved |-> Len(rtc) > 0]

\* broadcastMessage(message) up to its first suspension in the loop over
\* the connections
BroadcastMessage(message, rtc) ==
  /\ BroadcastsMade < MaxBroadcasts
  /\ LET call   == Len(calls) + 1
         record == [id |-> message.id, ttl |-> message.ttl, exclude |-> NoPeer,
                    origin |-> "broadcast", at |-> now,
                    lastAdded |-> added[message.id], peers |-> ConnectedStamps,
                    status |-> "webrtc", packets |-> <<>>, cur |-> NoEntry,
                    pkt |-> 0, wait |-> "none", rtc |-> rtc]
     IN  IF Len(rtc) > 0 /\ webrtcBroadcast(rtc).resolved
         THEN /\ calls' = Append(calls, record)
              /\ attempts' = Append(attempts, <<>>)
              /\ UNCHANGED <<timers, timerSeq>>
         ELSE IF Len(connections) = 0
         THEN /\ calls' = Append(calls, [record EXCEPT !.status = "no-devices"])
              /\ attempts' = Append(attempts, <<>>)
              /\ UNCHANGED <<timers, timerSeq>>
         ELSE
           LET pkts == encode(message, now)
               loop == NextPeer(connections, call, NoPeer, pkts, 0)
           IN  /\ calls' = Append(calls,
                    [record EXCEPT !.status = "bluetooth", !.packets = pkts,
                                   !.cur = loop.cur, !.pkt = loop.pkt,
                                   !.wait = loop.wait])
               /\ attempts' = Append(attempts, loop.log)
               /\ timers' = timers \cup
                    (IF loop.wait = "gap"
                     THEN {Timer("gap", timerSeq + 1, now + BROADCAST_GAP, <<>>,
                                 NoMessage, NoPeer, call)}
                     ELSE {})
               /\ timerSeq' = timerSeq + (IF loop.wait = "gap" THEN 1 ELSE 0)
  /\ UNCHANGED <<now, channelVars, linkVars, lifeVars, cryptoVars, graphVars,
                 bluetoothVars, meshVars, scanVars, codecVars, connections,
                 connects, disconnects, processedMessages, meshRoutes, events,
                 arrivals, added>>

\* successCount at the end of the loop: the peers whose last packet was
\* handed to sendToDevice and came back without an error
successCount(c) ==
  Cardinality({k \in 1..Len(attempts[c]) :
                 /\ attempts[c][k].pkt = Len(calls[c].packets)
                 /\ attempts[c][k].state \in {"written", "skipped"}})

\* how the broadcastMessage call c ended: "completed" (its promise
\* resolved), "error" (it rejected) or "running"
broadcastOutcome(c) ==
  IF calls[c].status = "webrtc" THEN "completed"
  ELSE IF calls[c].status = "no-devices" THEN "error"
  ELSE IF calls[c].wait # "none" THEN "running"
  ELSE IF successCount(c) = 0 THEN "error"
  ELSE "completed"


\* "node_" and "_"
NODE_PREFIX == <<110, 111, 100, 101, 95>>
UNDERSCORE == 95
\* the random suffixes Math.random().toString(36).substr(2, 9) may yield
NodeSuffixes == {Letters(9), Rep(48, 9)}

\* generateNodeId(): "node_<Date.now()>_<random>", a fresh value at each call
generateNodeId(t, suffix) == NODE_PREFIX \o Digits(t) \o <<UNDERSCORE>> \o suffix

Arrival(from, data, kind, msg, scheduled) ==
  [from |-> from, at |-> now, version |-> PacketVersion(data), kind |-> kind,
   id |-> msg.id, ttl |-> msg.ttl, scheduled |-> scheduled,
   lastAdded |-> IF msg.id \in RelayIds THEN added[msg.id] ELSE 0 - 1,
   peers |-> ConnectedIds]

\* BluetoothService.handleIncomingMessage(data, fromDeviceId): the
\* notification handler of a connected characteristic
HandleIncomingMessage(p, data) ==
  /\ \E i \in 1..Len(connections) : connections[i].id = p /\ connections[i].hasChar
  /\ Len(arrivals) < MaxInbound
  /\ Ops < MaxOps
  /\ IF JsonType(data) = "MESH_ANNOUNCE"
     THEN /\ arrivals' = Append(arrivals, Arrival(p, data, "json", NoMessage, FALSE))
          /\ UNCHANGED <<processedMessages, meshRoutes, timers, timerSeq, events,
                         added>>
     ELSE
       LET result  == decode(data, now)
           msg     == result.msg
       IN  IF result.kind # "message"
           THEN \* decode threw (caught and logged) or returned null
                /\ arrivals' =
                     Append(arrivals, Arrival(p, data, result.kind, NoMessage, FALSE))
                /\ UNCHANGED <<processedMessages, meshRoutes, timers, timerSeq,
                               events, added>>
           ELSE IF msg.id \in processedMessages
           THEN /\ arrivals' =
                     Append(arrivals, Arrival(p, data, "duplicate", msg, FALSE))
                /\ UNCHANGED <<processedMessages, meshRoutes, timers, timerSeq,
                               events, added>>
           ELSE
             LET relays == /\ \E suffix \in NodeSuffixes :
                                msg.sender # generateNodeId(now, suffix)
                           /\ msg.ttl > 1
                           /\ Len(connections) > 1
             IN  /\ processedMessages' = processedMessages \cup {msg.id}
                 /\ added' = [added EXCEPT ![msg.id] = now]
                 /\ meshRoutes' =
                      [meshRoutes EXCEPT ![p] =
                         Some((IF @ = Undefined THEN {} ELSE @[1]) \cup {msg.sender})]
                 /\ events' = Append(events, msg)
                 /\ arrivals' =
                      Append(arrivals, Arrival(p, data, "delivered", msg, relays))
                 /\ IF relays
                    THEN /\ \E delay \in RelayDelays :
                              timers' = timers
                                \cup {InboundDedupTimer(timerSeq + 1, msg.id),
                                      RelayTimer(timerSeq + 2, delay, msg, p)}
                         /\ timerSeq' = timerSeq + 2
                    ELSE /\ timers' = timers
                                          \cup {InboundDedupTimer(timerSeq + 1, msg.id)}
                         /\ timerSeq' = timerSeq + 1
  /\ UNCHANGED <<now, channelVars, linkVars, lifeVars, cryptoVars, graphVars, bluetoothVars, meshVars, scanVars, codecVars, connections, connects, disconnects, calls, attempts>>

\* time passes until the next timer is due; the dedup windows that may
\* elapse are bounded
Tick ==
  /\ timers # {}
  /\ \A t \in timers : t.due > now
  /\ now' = SetMin({t.due : t \in timers})
  /\ \/ now' <= MaxWindows * DEDUP_TTL
     \/ \A t \in timers : t.due = now' => t.kind # "dedup"
  /\ UNCHANGED <<codecVars, relayVars, linkVars, lifeVars, cryptoVars, graphVars, bluetoothVars, channelVars, meshVars, scanVars>>

\* ------------------------------------------------------------------------
\* ChannelService: the lifecycle of a channel
\* ------------------------------------------------------------------------

DISCOVERY_DELAY == 2000
AUTH_DELAY == 1500
MAX_NAME_LENGTH == 30
HASH == 35

MaxChannelCalls == 3

\* "#a", "A", "#b" and "a!"
ChannelNames == {<<HASH, 97>>, <<65>>, <<HASH, 98>>, <<97, 33>>}
\* no password, and "pw"
Passwords == {Undefined, Some(<<112, 119>>)}

\* String.prototype.toLowerCase on one byte
LowerCase(c) == IF c >= 65 /\ c <= 90 THEN c + 32 ELSE c

toLowerCase(name) == [i \in 1..Len(name) |-> LowerCase(name[i])]

\* \w of a regular expression
IsWordChar(c) ==
  \/ c >= 48 /\ c <= 57
  \/ c >= 65 /\ c <= 90
  \/ c >= 97 /\ c <= 122
  \/ c = UNDERSCORE

\* ChannelService.validateChannelName: /^#\w{1,30}$/
validateChannelName(name) ==
  /\ Len(name) >= 2
  /\ Len(name) <= 1 + MAX_NAME_LENGTH
  /\ name[1] = HASH
  /\ \A i \in 2..Len(name) : IsWordChar(name[i])

\* ChannelService.normalizeChannelName
normalizeChannelName(name) ==
  IF name # <<>> /\ name[1] = HASH THEN toLowerCase(name)
  ELSE <<HASH>> \o toLowerCase(name)

\* the keys the channel Map can get
ChannelKeys ==
  {normalizeChannelName(n) : n \in {m \in ChannelNames :
                                      validateChannelName(normalizeChannelName(m))}}

NoChannel == [state |-> "absent", password |-> Undefined, joinedAt |-> Undefined,
              lastActivity |-> Undefined]

NoError == "none"

ChannelTimer(kind, seq, due, channel) ==
  [kind |-> kind, seq |-> seq, due |-> due, channel |-> channel]

ChannelEvent(type, channel, state) ==
  [type |-> type, channel |-> channel, state |-> state, at |-> now]

\* an assignment to a channel's state; timer is the seq of the timeout whose
\* callback made it, 0 when an API call made it
Change(w, channel, to, by) ==
  [channel |-> channel, from |-> w.channels[channel].state, to |-> to, by |-> by,
   timer |-> w.cause]

\* the channel service as a value, with the error a call ended with
World ==
  [channels |-> channels, timers |-> channelTimers, seq |-> channelTimerSeq,
   events |-> channelEvents, changes |-> channelChanges, error |-> NoError,
   cause |-> 0]

Has(w, name) == name \in ChannelKeys /\ w.channels[name].state # "absent"

\* ChannelService.discoverChannel
discoverChannel(w, channelName) ==
  LET normalizedName == normalizeChannelName(channelName)
  IN  IF ~validateChannelName(normalizedName)
      THEN [w EXCEPT !.error = "Invalid channel name format. Use #channelname"]
      ELSE [w EXCEPT
              !.channels[normalizedName] =
                 [state |-> "discovering", password |-> Undefined,
                  joinedAt |-> Undefined, lastActivity |-> Some(now)],
              !.events = Append(@, ChannelEvent("channel-state-changed",
                                                normalizedName, "discovering")),
              !.changes = Append(@, Change(w, normalizedName, "discovering",
                                           "discoverChannel")),
              !.timers = @ \cup {ChannelTimer("discovery", w.seq + 1,
                                              now + DISCOVERY_DELAY, normalizedName)},
              !.seq = @ + 1]

\* ChannelService.proceedToAuthentication
proceedToAuthentication(w, channelName) ==
  IF ~Has(w, channelName) THEN w
  ELSE [w EXCEPT
          !.channels[channelName].state = "authenticating",
          !.channels[channelName].lastActivity = Some(now),
          !.events = Append(@, ChannelEvent("channel-state-changed", channelName,
                                            "authenticating")),
          !.changes = Append(@, Change(w, channelName, "authenticating",
                                       "proceedToAuthentication")),
          !.timers = @ \cup {ChannelTimer("auth", w.seq + 1, now + AUTH_DELAY,
                                          channelName)},
          !.seq = @ + 1]

\* ChannelService.handleDiscoveryComplete
handleDiscoveryComplete(w, channelName) ==
  IF ~Has(w, channelName) THEN w
  ELSE proceedToAuthentication(
         [w EXCEPT
            !.channels[channelName].state = "joining",
            !.channels[channelName].lastActivity = Some(now),
            !.events = Append(@, ChannelEvent("channel-state-changed", channelName,
                                              "joining")),
            !.changes = Append(@, Change(w, channelName, "joining",
                                         "handleDiscoveryComplete"))],
         channelName)

\* ChannelService.handleAuthenticationResult
handleAuthenticationResult(w, channelName, success) ==
  IF ~Has(w, channelName) THEN w
  ELSE IF success
  THEN [w EXCEPT
          !.channels[channelName].state = "authenticated",
          !.channels[channelName].joinedAt = Some(now),
          !.channels[channelName].lastActivity = Some(now),
          !.events = @ \o <<ChannelEvent("channel-joined", channelName, "authenticated"),
                            ChannelEvent("channel-state-changed", channelName,
                                         "authenticated")>>,
          !.changes = Append(@, Change(w, channelName, "authenticated",
                                       "handleAuthenticationResult"))]
  ELSE [w EXCEPT
          !.channels[channelName].state = "failed",
          !.events = @ \o <<ChannelEvent("channel-join-failed", channelName, "failed"),
                            ChannelEvent("channel-state-changed", channelName,
                                         "failed")>>,
          !.changes = Append(@, Change(w, channelName, "failed",
                                       "handleAuthenticationResult"))]

\* ChannelService.joinChannel
joinChannel(w, channelName, password) ==
  LET normalizedName == normalizeChannelName(channelName)
      found == IF Has(w, normalizedName) THEN w
               ELSE discoverChannel(w, normalizedName)
  IN  IF found.error # NoError THEN found
      ELSE IF found.channels[normalizedName].state # "joining"
      THEN [found EXCEPT !.error = "Cannot join channel in state"]
      ELSE proceedToAuthentication(
             [found EXCEPT !.channels[normalizedName].password = password],
             normalizedName)

\* ChannelService.leaveChannel
leaveChannel(w, channelName) ==
  LET normalizedName == normalizeChannelName(channelName)
  IN  IF ~Has(w, normalizedName)
      THEN [w EXCEPT !.error = "Channel not found"]
      ELSE [w EXCEPT
              !.channels[normalizedName] = NoChannel,
              !.events = Append(@, ChannelEvent("channel-left", normalizedName,
                                                "absent")),
              !.changes = Append(@, Change(w, normalizedName, "absent",
                                           "leaveChannel"))]

\* the service takes the value w
Becomes(w) ==
  /\ channels' = w.channels
  /\ channelTimers' = w.timers
  /\ channelTimerSeq' = w.seq
  /\ channelEvents' = w.events
  /\ channelChanges' = w.changes

\* an API call that ended as w says
Called(op, channelName, w) ==
  /\ Len(channelCalls) < MaxChannelCalls
  /\ channelCalls' =
       Append(channelCalls,
              [op |-> op, name |-> channelName, at |-> now, error |-> w.error,
               seen |-> Len(channelChanges), emitted |-> Len(channelEvents),
               started |-> channelTimerSeq])
  /\ Becomes(w)
  /\ UNCHANGED <<now, codecVars, relayVars, linkVars, lifeVars, cryptoVars, graphVars, bluetoothVars, meshVars, scanVars>>

DiscoverChannel(channelName) ==
  Called("discoverChannel", channelName, discoverChannel(World, channelName))

JoinChannel(channelName, password) ==
  Called("joinChannel", channelName, joinChannel(World, channelName, password))

LeaveChannel(channelName) ==
  Called("leaveChannel", channelName, leaveChannel(World, channelName))

\* the callback the event loop runs next: earliest due, then oldest
IsNextChannelTimer(t) ==
  /\ t \in channelTimers
  /\ t.due <= now
  /\ \A u \in channelTimers : u.due > t.due \/ (u.due = t.due /\ u.seq >= t.seq)

\* the timeout set by discoverChannel runs
DiscoveryTimerFires ==
  \E t \in channelTimers :
    /\ IsNextChannelTimer(t)
    /\ t.kind = "discovery"
    /\ Becomes(handleDiscoveryComplete(
                 [World EXCEPT !.timers = @ \ {t}, !.cause = t.seq], t.channel))
    /\ UNCHANGED <<now, codecVars, relayVars, linkVars, lifeVars, cryptoVars, graphVars, bluetoothVars, meshVars, scanVars, channelCalls>>

\* the timeout set by proceedToAuthentication runs
AuthTimerFires ==
  \E t \in channelTimers :
    /\ IsNextChannelTimer(t)
    /\ t.kind = "auth"
    /\ Becomes(handleAuthenticationResult(
                 [World EXCEPT !.timers = @ \ {t}, !.cause = t.seq], t.channel, TRUE))
    /\ UNCHANGED <<now, codecVars, relayVars, linkVars, lifeVars, cryptoVars, graphVars, bluetoothVars, meshVars, scanVars, channelCalls>>

\* time passes until the next channel timer is due
ChannelTick ==
  /\ channelTimers # {}
  /\ \A t \in channelTimers : t.due > now
  /\ now' = SetMin({t.due : t \in channelTimers})
  /\ UNCHANGED <<codecVars, relayVars, linkVars, lifeVars, cryptoVars, graphVars, bluetoothVars, channelVars, meshVars, scanVars>>

\* the channel service after construction
ChannelIdle ==
  /\ channels = [n \in ChannelKeys |-> NoChannel]
  /\ channelTimers = {}
  /\ channelTimerSeq = 0
  /\ channelEvents = <<>>
  /\ channelCalls = <<>>
  /\ channelChanges = <<>>

\* ------------------------------------------------------------------------
\* The mesh coordinators of several tabs on one BroadcastChannel
\* ------------------------------------------------------------------------

\* MeshCoordinator.CONFIG
HEARTBEAT_INTERVAL == 10000
NODE_TIMEOUT == 30000
SYNC_INTERVAL == 15000
MAX_NODES == 50
PROTOCOL_VERSION == 1

MaxMeshOps == 2
MaxMeshTime == 15000
MaxSilentOps == 3
MaxSilentTime == 45000

FewPeers == 3
ManyPeers == 6

\* the node ids of the coordinators that are followed step by step
Coordinators == {1, 2}

\* the node ids of the tabs that are not followed step by step: a third tab,
\* of which only the heartbeats are followed, a remote tab whose node table
\* is full, and a tab that runs a build with another protocol version
TabIds == [other |-> 3, remote |-> 101, foreign |-> 201]

OtherId == TabIds.other

RemoteId == TabIds.remote

ForeignId == TabIds.foreign

\* the peer lists the Bluetooth layer hands to updatePeers
PeerLists == {[k \in 1..FewPeers |-> k], [k \in 1..ManyPeers |-> k]}

\* MeshCoordinator.getNodeCapabilities
getNodeCapabilities ==
  [canRelay |-> TRUE, isBridge |-> TRUE, maxTTL |-> 7,
   protocolVersions |-> <<PROTOCOL_VERSION>>]

MeshNode(id, lastHeartbeat, knownPeers, routingVersion) ==
  [id |-> id, capabilities |-> getNodeCapabilities, lastHeartbeat |-> lastHeartbeat,
   knownPeers |-> knownPeers, routingVersion |-> routingVersion]

CoordinationMessage(type, nodeId, payload, version) ==
  [type |-> type, nodeId |-> nodeId, payload |-> payload, timestamp |-> now,
   version |-> version]

\* Map.has and Map.get on a Map kept as the sequence of its values
HasNode(table, id) == \E k \in 1..Len(table) : table[k].id = id

GetNode(table, id) == table[CHOOSE k \in 1..Len(table) : table[k].id = id]

\* Map.set: a known key keeps its place, a new one goes to the end
SetNode(table, node) ==
  IF HasNode(table, node.id)
  THEN [k \in 1..Len(table) |-> IF table[k].id = node.id THEN node ELSE table[k]]
  ELSE Append(table, node)

\* Map.delete
DeleteNode(table, id) == SelectSeq(table, LAMBDA n : n.id # id)

\* the coordinator i as a value, with what a step of it sent and emitted
Coordinator(i) == [nodeId |-> i, nodes |-> nodes[i], sent |-> <<>>, emitted |-> <<>>,
                  handled |-> <<>>]

emit(c, type, id) == [c EXCEPT !.emitted = Append(@, [type |-> type, id |-> id])]

\* MeshCoordinator.broadcastMessage
broadcastMessage(c, type, payload) ==
  [c EXCEPT !.sent = Append(@, CoordinationMessage(type, c.nodeId, payload,
                                                   PROTOCOL_VERSION))]

\* MeshCoordinator.getLocalRoutingVersion
getLocalRoutingVersion(c) ==
  IF HasNode(c.nodes, c.nodeId) THEN GetNode(c.nodes, c.nodeId).routingVersion ELSE 0

\* MeshCoordinator.registerNode; the sort is stable, so of the nodes with the
\* least lastHeartbeat the one inserted first is removed
registerNode(c, node) ==
  LET table == c.nodes
      oldest == CHOOSE k \in 1..Len(table) :
                  \A j \in 1..Len(table) :
                    \/ table[j].lastHeartbeat > table[k].lastHeartbeat
                    \/ table[j].lastHeartbeat = table[k].lastHeartbeat /\ j >= k
      room == IF Len(table) >= MAX_NODES THEN DeleteNode(table, table[oldest].id)
              ELSE table
  IN  emit([c EXCEPT !.nodes = SetNode(room, node)], "node-registered", node.id)

\* forEach(id => emit(type, id))
emitEach(c, type, ids) ==
  [c EXCEPT !.emitted = @ \o [k \in 1..Len(ids) |-> [type |-> type, id |-> ids[k]]]]

\* MeshCoordinator.pruneStaleNodes
pruneStaleNodes(c) ==
  LET stale(n) == n.id # c.nodeId /\ now - n.lastHeartbeat > NODE_TIMEOUT
      staleNodes == SelectSeq(c.nodes, stale)
  IN  emitEach([c EXCEPT !.nodes = SelectSeq(@, LAMBDA n : ~stale(n))],
               "node-removed", [k \in 1..Len(staleNodes) |-> staleNodes[k].id])

shouldRequestSyncWithoutMargin(c) ==
  \E k \in 1..Len(c.nodes) : Len(c.nodes[k].knownPeers) > Len(c.nodes)

\* MeshCoordinator.shouldRequestSync
shouldRequestSync(c) ==
  \E k \in 1..Len(c.nodes) : Len(c.nodes[k].knownPeers) > Len(c.nodes) + 2

\* MeshCoordinator.synchronizeMeshState
synchronizeMeshState(c) ==
  LET pruned == pruneStaleNodes(c)
  IN  IF shouldRequestSync(pruned)
      THEN broadcastMessage(pruned, "SYNC_REQUEST",
                            [routingVersion |-> getLocalRoutingVersion(pruned)])
      ELSE pruned

\* MeshCoordinator.broadcastHeartbeat
broadcastHeartbeat(c) ==
  IF ~HasNode(c.nodes, c.nodeId) THEN c
  ELSE LET node == GetNode(c.nodes, c.nodeId)
       IN  broadcastMessage(c, "HEARTBEAT",
                            [capabilities |-> node.capabilities,
                             knownPeers |-> node.knownPeers,
                             routingVersion |-> node.routingVersion])

\* handleHeartbeat without the registration of a node that is not held
handleHeartbeatOfHeld(c, message) ==
  LET payload == message.payload
      heard == IF HasNode(c.nodes, message.nodeId)
               THEN [c EXCEPT !.nodes =
                       SetNode(@, [GetNode(c.nodes, message.nodeId) EXCEPT
                                     !.lastHeartbeat = now,
                                     !.capabilities = payload.capabilities,
                                     !.knownPeers = payload.knownPeers,
                                     !.routingVersion = payload.routingVersion])]
               ELSE c
  IN  emit(heard, "node-heartbeat", message.nodeId)

\* MeshCoordinator.handleHeartbeat
handleHeartbeat(c, message) ==
  LET payload == message.payload
      heard == IF HasNode(c.nodes, message.nodeId)
               THEN [c EXCEPT !.nodes =
                       SetNode(@, [GetNode(c.nodes, message.nodeId) EXCEPT
                                     !.lastHeartbeat = now,
                                     !.capabilities = payload.capabilities,
                                     !.knownPeers = payload.knownPeers,
                                     !.routingVersion = payload.routingVersion])]
               ELSE registerNode(c, [id |-> message.nodeId,
                                     capabilities |-> payload.capabilities,
                                     lastHeartbeat |-> now,
                                     knownPeers |-> payload.knownPeers,
                                     routingVersion |-> payload.routingVersion])
  IN  emit(heard, "node-heartbeat", message.nodeId)

\* MeshCoordinator.handleSyncRequest; the topology in the payload is computed
\* from the nodes that are in it
handleSyncRequest(c) ==
  broadcastMessage(c, "SYNC_RESPONSE",
                   [nodes |-> c.nodes, routingVersion |-> getLocalRoutingVersion(c)])

\* forEach(node => { if (node.id !== self) nodes.set(node.id, node) }) for
\* the values of a Map, which have distinct ids
setEach(table, received, self) ==
  LET taken == SelectSeq(received, LAMBDA n : n.id # self)
  IN  [k \in 1..Len(table) |->
         IF HasNode(taken, table[k].id) THEN GetNode(taken, table[k].id) ELSE table[k]]
        \o SelectSeq(taken, LAMBDA n : ~HasNode(table, n.id))

\* MeshCoordinator.handleSyncResponse
handleSyncResponse(c, message) ==
  emit([c EXCEPT !.nodes = setEach(@, message.payload.nodes, c.nodeId)],
       "mesh-synchronized", message.nodeId)

handleAnyVersion(c, message) ==
  IF message.nodeId = c.nodeId THEN c
  ELSE CASE message.type = "HEARTBEAT" -> handleHeartbeat(c, message)
         [] message.type = "TOPOLOGY_UPDATE" -> emit(c, "topology-update", message.nodeId)
         [] message.type = "SYNC_REQUEST" -> handleSyncRequest(c)
         [] message.type = "SYNC_RESPONSE" -> handleSyncResponse(c, message)
         [] OTHER -> c

\* MeshCoordinator.handleCoordinationMessage
handleCoordinationMessage(c, message) ==
  IF message.nodeId = c.nodeId THEN c
  ELSE IF message.version # PROTOCOL_VERSION THEN c
  ELSE CASE message.type = "HEARTBEAT" -> handleHeartbeat(c, message)
         [] message.type = "TOPOLOGY_UPDATE" -> emit(c, "topology-update", message.nodeId)
         [] message.type = "SYNC_REQUEST" -> handleSyncRequest(c)
         [] message.type = "SYNC_RESPONSE" -> handleSyncResponse(c, message)
         [] OTHER -> c

\* MeshCoordinator.updatePeers
updatePeers(c, peers) ==
  IF ~HasNode(c.nodes, c.nodeId) THEN c
  ELSE LET node == [GetNode(c.nodes, c.nodeId) EXCEPT !.knownPeers = peers,
                                                      !.routingVersion = @ + 1]
       IN  broadcastMessage([c EXCEPT !.nodes = SetNode(@, node)], "TOPOLOGY_UPDATE",
                            [peers |-> node.knownPeers,
                             routingVersion |-> node.routingVersion])

\* BroadcastChannel.postMessage: every other open channel of the name gets
\* the messages, in the order they were posted
Posted(sender, messages, boxes) ==
  [j \in Coordinators |->
     IF j # sender /\ status[j] = "running" THEN boxes[j] \o messages ELSE boxes[j]]

\* a step of coordinator i that leaves it as c says
MeshStepOf(i, op, c, boxes) ==
  /\ nodes' = [nodes EXCEPT ![i] = c.nodes]
  /\ inbox' = Posted(i, c.sent, boxes)
  /\ meshStep' = [by |-> i, op |-> op, sent |-> c.sent, emitted |-> c.emitted,
                  handled |-> IF op = "message" THEN <<Head(inbox[i])>> ELSE <<>>]

\* the callback of heartbeatInterval
HeartbeatFires(i) ==
  /\ status[i] = "running"
  /\ heartbeatDue[i] <= now
  /\ MeshStepOf(i, "heartbeat", broadcastHeartbeat(Coordinator(i)), inbox)
  /\ heartbeatDue' = [heartbeatDue EXCEPT ![i] = @ + HEARTBEAT_INTERVAL]
  /\ UNCHANGED <<now, codecVars, relayVars, linkVars, lifeVars, cryptoVars, graphVars, bluetoothVars, channelVars, scanVars, status, syncDue, meshOps>>

\* the callback of syncInterval
SyncFires(i) ==
  /\ status[i] = "running"
  /\ syncDue[i] <= now
  /\ MeshStepOf(i, "sync", synchronizeMeshState(Coordinator(i)), inbox)
  /\ syncDue' = [syncDue EXCEPT ![i] = @ + SYNC_INTERVAL]
  /\ UNCHANGED <<now, codecVars, relayVars, linkVars, lifeVars, cryptoVars, graphVars, bluetoothVars, channelVars, scanVars, status, heartbeatDue, meshOps>>

\* broadcastChannel.onmessage
Receive(i) ==
  /\ status[i] = "running"
  /\ inbox[i] # <<>>
  /\ MeshStepOf(i, "message",
                handleCoordinationMessage(Coordinator(i), Head(inbox[i])),
                [inbox EXCEPT ![i] = Tail(@)])
  /\ UNCHANGED <<now, codecVars, relayVars, linkVars, lifeVars, cryptoVars, graphVars, bluetoothVars, channelVars, scanVars, status, heartbeatDue, syncDue,
                 meshOps>>

\* the Bluetooth layer reports its peers
UpdatePeers(i, peers) ==
  /\ status[i] = "running"
  /\ meshOps' = meshOps + 1
  /\ MeshStepOf(i, "updatePeers", updatePeers(Coordinator(i), peers), inbox)
  /\ UNCHANGED <<now, codecVars, relayVars, linkVars, lifeVars, cryptoVars, graphVars, bluetoothVars, channelVars, scanVars, status, heartbeatDue, syncDue>>

\* MeshCoordinator.destroy: the tab goes away
Destroy(i) ==
  /\ status[i] = "running"
  /\ meshOps' = meshOps + 1
  /\ status' = [status EXCEPT ![i] = "destroyed"]
  /\ nodes' = [nodes EXCEPT ![i] = <<>>]
  /\ inbox' = [inbox EXCEPT ![i] = <<>>]
  /\ meshStep' = [by |-> i, op |-> "destroy", sent |-> <<>>, emitted |-> <<>>,
                  handled |-> <<>>]
  /\ UNCHANGED <<now, codecVars, relayVars, linkVars, lifeVars, cryptoVars, graphVars, bluetoothVars, channelVars, scanVars, heartbeatDue, syncDue>>

\* a message of a tab that is not followed here reaches the channel
Outside(message) ==
  /\ meshOps' = meshOps + 1
  /\ inbox' = Posted(message.nodeId, <<message>>, inbox)
  /\ meshStep' = [by |-> message.nodeId, op |-> "outside", sent |-> <<message>>,
                  emitted |-> <<>>, handled |-> <<>>]
  /\ UNCHANGED <<now, codecVars, relayVars, linkVars, lifeVars, cryptoVars, graphVars, bluetoothVars, channelVars, scanVars, nodes, heartbeatDue, syncDue>>

\* the third tab sends a heartbeat; its routing version grows with the
\* number of steps the environment has taken
OtherHeartbeat ==
  /\ status[OtherId] = "running"
  /\ Outside(CoordinationMessage(
               "HEARTBEAT", OtherId,
               [capabilities |-> getNodeCapabilities,
                knownPeers |-> [k \in 1..ManyPeers |-> k],
                routingVersion |-> meshOps],
               PROTOCOL_VERSION))
  /\ UNCHANGED status

\* the third tab is closed
OtherLeaves ==
  /\ status[OtherId] = "running"
  /\ meshOps' = meshOps + 1
  /\ status' = [status EXCEPT ![OtherId] = "destroyed"]
  /\ meshStep' = [by |-> OtherId, op |-> "destroy", sent |-> <<>>, emitted |-> <<>>,
                  handled |-> <<>>]
  /\ UNCHANGED <<now, codecVars, relayVars, linkVars, lifeVars, cryptoVars, graphVars, bluetoothVars, channelVars, scanVars, nodes, heartbeatDue, syncDue,
                 inbox>>

\* the remote tab, whose table holds MAX_NODES nodes, answers a SYNC_REQUEST
RemoteSyncResponse ==
  /\ Outside(CoordinationMessage(
               "SYNC_RESPONSE", RemoteId,
               [nodes |-> [k \in 1..MAX_NODES |->
                             MeshNode(RemoteId + k - 1, now, <<>>, 0)],
                routingVersion |-> 0],
               PROTOCOL_VERSION))
  /\ UNCHANGED status

\* the tab of the other build sends a message of the given type
ForeignMessage(type) ==
  /\ Outside(CoordinationMessage(
               type, ForeignId,
               [capabilities |-> getNodeCapabilities, knownPeers |-> <<>>,
                routingVersion |-> 0,
                nodes |-> <<MeshNode(ForeignId, now, <<>>, 0)>>],
               PROTOCOL_VERSION + 1))
  /\ UNCHANGED status

\* the times the running coordinators' intervals fire next
MeshDue ==
  {heartbeatDue[i] : i \in {j \in Coordinators : status[j] = "running"}}
    \cup {syncDue[i] : i \in {j \in Coordinators : status[j] = "running"}}

\* every message is handled and no interval is due
Quiet ==
  /\ \A d \in MeshDue : d > now
  /\ \A i \in Coordinators : inbox[i] = <<>>

\* time passes until the next interval fires, once every message is handled
MeshTick(limit) ==
  /\ MeshDue # {}
  /\ Quiet
  /\ SetMin(MeshDue) <= limit
  /\ now' = SetMin(MeshDue)
  /\ UNCHANGED <<codecVars, relayVars, linkVars, lifeVars, cryptoVars, graphVars, bluetoothVars, channelVars, meshVars, scanVars>>

\* the tabs after the constructor of their coordinator ran: each has
\* registered itself, and the heartbeat startHeartbeat sends at once was
\* dropped because the node was not registered yet
MeshIdle ==
  /\ nodes = [i \in Coordinators |-> <<MeshNode(i, 0, <<>>, 0)>>]
  /\ status = [i \in Coordinators \cup {OtherId} |-> "running"]
  /\ heartbeatDue = [i \in Coordinators |-> HEARTBEAT_INTERVAL]
  /\ syncDue = [i \in Coordinators |-> SYNC_INTERVAL]
  /\ inbox = [i \in Coordinators |-> <<>>]
  /\ meshStep = [by |-> 0, op |-> "none", sent |-> <<>>, emitted |-> <<>>,
                  handled |-> <<>>]
  /\ meshOps = 0

\* ------------------------------------------------------------------------
\* The scanning optimizer
\* ------------------------------------------------------------------------

OPTIMIZE_INTERVAL == 30000
MAX_HISTORY == 100
FIVE_MINUTES == 300000
MIN_DURATION == 500

MaxCycles == 3
MaxScanOps == 2
ScanStart == 400000

\* ScanningOptimizer.SCAN_MODES
SCAN_MODES ==
  [aggressive |-> [interval |-> 5000, duration |-> 3000, passive |-> FALSE,
                   powerLevel |-> "high"],
   balanced |-> [interval |-> 15000, duration |-> 2000, passive |-> FALSE,
                 powerLevel |-> "medium"],
   conservative |-> [interval |-> 30000, duration |-> 1000, passive |-> TRUE,
                     powerLevel |-> "low"],
   minimal |-> [interval |-> 60000, duration |-> 500, passive |-> TRUE,
                powerLevel |-> "low"]]

\* the strategies in the order initializeStrategies pushes them
Strategies ==
  <<"battery-conservation", "low-activity", "high-activity", "adaptive-rssi",
    "time-based-optimization", "connection-success-rate", "adaptive-power">>

NoStrategy == "none"

\* x * (tenths / 10): the products the strategies compute are whole numbers
\* of milliseconds for the modes reached within MaxCycles cycles
Times(x, tenths) == (x * tenths) \div 10

Max(a, b) == IF a > b THEN a ELSE b

\* ScanningOptimizer.getRecentStats: stats.slice(-count)
getRecentStats(stats, count) ==
  IF Len(stats) <= count THEN stats ELSE SubSeq(stats, Len(stats) - count + 1, Len(stats))

RECURSIVE Sum(_)
Sum(numbers) == IF numbers = <<>> THEN 0 ELSE Head(numbers) + Sum(Tail(numbers))

\* ScanningOptimizer.calculateAverage(numbers) < bound, and > bound
AverageBelow(numbers, bound) ==
  IF numbers = <<>> THEN 0 < bound ELSE Sum(numbers) < bound * Len(numbers)

AverageAbove(numbers, bound) ==
  IF numbers = <<>> THEN 0 > bound ELSE Sum(numbers) > bound * Len(numbers)

DevicesFound(stats) == [k \in 1..Len(stats) |-> stats[k].devicesFound]

AverageRssi(stats) == [k \in 1..Len(stats) |-> stats[k].averageRssi]

\* a time span, Infinity when finite is FALSE
Span(finite, ms) == [finite |-> finite, ms |-> ms]

\* ScanningOptimizer.getTimeSinceLastConnection
getTimeSinceLastConnection ==
  IF lastConnectionTime = 0
  THEN LET connected == SelectSeq(scanHistory, LAMBDA s : s.connectionsEstablished > 0)
       IN  IF connected = <<>> THEN Span(FALSE, 0)
           ELSE LET latest ==
                      CHOOSE k \in 1..Len(connected) :
                        \A j \in 1..Len(connected) :
                          connected[j].timestamp <= connected[k].timestamp
                IN  Span(TRUE, now - connected[latest].timestamp)
  ELSE Span(TRUE, now - lastConnectionTime)

\* ScanningOptimizer.getCurrentContext
getCurrentContext ==
  [batteryLevel |-> scanEnv.batteryLevel,
   isCharging |-> scanEnv.charging,
   activeConnections |-> activeConnections,
   timeSinceLastConnection |-> getTimeSinceLastConnection,
   isAppActive |-> ~scanEnv.hidden]

\* OptimizationStrategy.shouldApply of the strategy of the given name
shouldApply(name, stats, context) ==
  CASE name = "battery-conservation" ->
         context.batteryLevel < 20 /\ ~context.isCharging
    [] name = "low-activity" ->
         /\ AverageBelow(DevicesFound(getRecentStats(stats, 5)), 1)
         /\ \/ ~context.timeSinceLastConnection.finite
            \/ context.timeSinceLastConnection.ms > FIVE_MINUTES
    [] name = "high-activity" ->
         /\ AverageAbove(DevicesFound(getRecentStats(stats, 5)), 3)
         /\ context.isAppActive
    [] name = "adaptive-rssi" ->
         AverageBelow(AverageRssi(getRecentStats(stats, 10)), -80)
    [] name = "time-based-optimization" ->
         /\ scanEnv.hour >= 22 \/ scanEnv.hour <= 6
         /\ context.batteryLevel < 50
    [] name = "connection-success-rate" ->
         LET recentStats == getRecentStats(stats, 20)
         IN  /\ Len(recentStats) >= 10
             /\ 10 * Len(SelectSeq(recentStats,
                                   LAMBDA s : s.connectionsEstablished > 0))
                  < Len(recentStats)
    [] name = "adaptive-power" ->
         /\ AverageBelow(AverageRssi(getRecentStats(stats, 5)), -70)
         /\ context.batteryLevel > 70
         /\ context.isCharging

\* OptimizationStrategy.apply of the strategy of the given name
apply(name, current) ==
  CASE name = "battery-conservation" -> SCAN_MODES.minimal
    [] name = "low-activity" ->
         [current EXCEPT !.interval = Min(Times(@, 15), 120000),
                         !.duration = Max(Times(@, 8), MIN_DURATION)]
    [] name = "high-activity" -> SCAN_MODES.aggressive
    [] name = "adaptive-rssi" ->
         [current EXCEPT !.duration = Min(Times(@, 12), 5000),
                         !.powerLevel = "high"]
    [] name = "time-based-optimization" -> SCAN_MODES.conservative
    [] name = "connection-success-rate" ->
         [current EXCEPT !.interval = Min(Times(@, 20), 180000),
                         !.duration = Max(Times(@, 5), MIN_DURATION)]
    [] name = "adaptive-power" ->
         [current EXCEPT !.powerLevel = "high",
                         !.duration = Min(Times(@, 15), 4000)]

\* ScanningOptimizer.isDifferentMode
isDifferentMode(mode1, mode2) ==
  \/ mode1.interval # mode2.interval
  \/ mode1.duration # mode2.duration
  \/ mode1.passive # mode2.passive
  \/ mode1.powerLevel # mode2.powerLevel

\* ScanningOptimizer.optimizeScanMode: the name of the strategy the loop
\* breaks at, NoStrategy when it runs to its end
optimizeScanMode(stats, context, current) ==
  LET changing == {k \in 1..Len(Strategies) :
                     /\ shouldApply(Strategies[k], stats, context)
                     /\ isDifferentMode(apply(Strategies[k], current), current)}
  IN  IF changing = {} THEN NoStrategy ELSE Strategies[SetMin(changing)]

\* the values recordScanStats is called with
ScanResults ==
  {[devicesFound |-> 0, connectionsEstablished |-> 0, averageRssi |-> -85,
    batteryLevel |-> 100],
   [devicesFound |-> 4, connectionsEstablished |-> 1, averageRssi |-> -50,
    batteryLevel |-> 100]}

ScanStats(result, timestamp) ==
  [devicesFound |-> result.devicesFound,
   connectionsEstablished |-> result.connectionsEstablished,
   averageRssi |-> result.averageRssi, batteryLevel |-> result.batteryLevel,
   timestamp |-> timestamp]

\* the histories the optimizer starts from: none, ten scans that found one
\* device and connected to none, and five scans that found four devices and
\* connected, more than five minutes ago
ScanHistories ==
  {<<>>,
   [k \in 1..10 |->
      ScanStats([devicesFound |-> 1, connectionsEstablished |-> 0,
                 averageRssi |-> -50, batteryLevel |-> 100], ScanStart - 1)],
   [k \in 1..5 |->
      ScanStats([devicesFound |-> 4, connectionsEstablished |-> 1,
                 averageRssi |-> -50, batteryLevel |-> 100],
                ScanStart - FIVE_MINUTES - 1)]}

\* what the browser reports: navigator.getBattery(), document.hidden and the
\* hour of the local time
ScanEnvs ==
  [batteryLevel : {10, 40, 100}, charging : BOOLEAN, hidden : BOOLEAN, hour : {3, 12}]

ModeNames == {"aggressive", "balanced", "conservative", "minimal"}

\* ScanningOptimizer.startOptimization
StartOptimization ==
  /\ optimizationInterval = 0
  /\ optimizationInterval' = now + OPTIMIZE_INTERVAL
  /\ UNCHANGED <<now, codecVars, relayVars, linkVars, lifeVars, cryptoVars, graphVars, bluetoothVars, channelVars, meshVars, scanHistory,
                 currentMode, scanEnv, activeConnections, lastConnectionTime,
                 scanStep, scanOps>>

\* ScanningOptimizer.recordScanStats
RecordScanStats(result) ==
  /\ scanOps < MaxScanOps
  /\ scanOps' = scanOps + 1
  /\ scanHistory' = getRecentStats(Append(scanHistory, ScanStats(result, now)),
                                   MAX_HISTORY)
  /\ UNCHANGED <<now, codecVars, relayVars, linkVars, lifeVars, cryptoVars, graphVars, bluetoothVars, channelVars, meshVars, currentMode,
                 scanEnv, activeConnections, lastConnectionTime,
                 optimizationInterval, scanStep>>

\* ScanningOptimizer.setScanMode with the name of a mode
SetScanMode(mode) ==
  /\ scanOps < MaxScanOps
  /\ scanOps' = scanOps + 1
  /\ currentMode' = SCAN_MODES[mode]
  /\ UNCHANGED <<now, codecVars, relayVars, linkVars, lifeVars, cryptoVars, graphVars, bluetoothVars, channelVars, meshVars, scanHistory,
                 scanEnv, activeConnections, lastConnectionTime,
                 optimizationInterval, scanStep>>

\* the listener of connection-established
ConnectionEstablished ==
  /\ scanOps < MaxScanOps
  /\ scanOps' = scanOps + 1
  /\ activeConnections' = activeConnections + 1
  /\ lastConnectionTime' = now
  /\ UNCHANGED <<now, codecVars, relayVars, linkVars, lifeVars, cryptoVars, graphVars, bluetoothVars, channelVars, meshVars, scanHistory,
                 currentMode, scanEnv, optimizationInterval, scanStep>>

\* the listener of connection-lost
ConnectionLost ==
  /\ scanOps < MaxScanOps
  /\ activeConnections > 0
  /\ scanOps' = scanOps + 1
  /\ activeConnections' = Max(0, activeConnections - 1)
  /\ UNCHANGED <<now, codecVars, relayVars, linkVars, lifeVars, cryptoVars, graphVars, bluetoothVars, channelVars, meshVars, scanHistory,
                 currentMode, scanEnv, lastConnectionTime, optimizationInterval,
                 scanStep>>

\* setInterval calls of the discovery scan in one run
MaxIntervals == 4

\* BluetoothService.applyScanMode
applyScanMode(mode) ==
  IF scanInterval # <<>>
    THEN /\ intervalSeq < MaxIntervals
         /\ intervalSeq' = intervalSeq + 1
         /\ intervals' = (intervals \ {scanInterval[1]}) \cup {intervalSeq + 1}
         /\ scanInterval' = <<intervalSeq + 1>>
         /\ periods' = Append(periods, mode.interval)
    ELSE UNCHANGED <<scanInterval, intervals, intervalSeq, periods>>

\* the callback of optimizationInterval: optimizeScanMode, and the listener
\* of mode-optimized that BluetoothService added
OptimizeFires ==
  /\ optimizationInterval # 0
  /\ optimizationInterval <= now
  /\ LET strategy == optimizeScanMode(scanHistory, getCurrentContext, currentMode)
     IN  /\ currentMode' = IF strategy = NoStrategy THEN currentMode
                           ELSE apply(strategy, currentMode)
         /\ scanStep' = [cycle |-> scanStep.cycle + 1, strategy |-> strategy]
         /\ IF strategy = NoStrategy
              THEN UNCHANGED <<scanInterval, intervals, intervalSeq, periods>>
              ELSE applyScanMode(apply(strategy, currentMode))
  /\ optimizationInterval' = optimizationInterval + OPTIMIZE_INTERVAL
  /\ UNCHANGED <<now, codecVars, relayVars, linkVars, lifeVars, cryptoVars, graphVars, channelVars, meshVars, scanHistory,
                 scanEnv, activeConnections, lastConnectionTime, scanOps,
                 isInitialized, initializing, isScanning, starts, microtasks,
                 stops, scans>>

\* time passes until the optimization interval fires
ScanTick ==
  /\ optimizationInterval > now
  /\ scanStep.cycle < MaxCycles
  /\ now' = optimizationInterval
  /\ UNCHANGED <<codecVars, relayVars, linkVars, lifeVars, cryptoVars, graphVars, bluetoothVars, channelVars, meshVars, scanVars>>

\* the optimizer after its constructor ran
ScanIdle ==
  /\ scanHistory = <<>>
  /\ currentMode = SCAN_MODES.balanced
  /\ scanEnv = [batteryLevel |-> 100, charging |-> FALSE, hidden |-> FALSE,
                hour |-> 12]
  /\ activeConnections = 0
  /\ lastConnectionTime = 0
  /\ optimizationInterval = 0
  /\ scanStep = [cycle |-> 0, strategy |-> NoStrategy]
  /\ scanOps = 0

\* ------------------------------------------------------------------------
\* BluetoothService: initialisation and the discovery-scan interval
\* ------------------------------------------------------------------------

MaxStarts == 3
MaxStops == 2
MaxScans == 2

\* a startScanning call: how it stands, and how many stopScanning calls
\* came before it
StartCall(state) == [state |-> state, stopsBefore |-> stops]

\* setInterval in startScanning and applyScanMode: a new handle, kept in
\* scanInterval whatever it held
setScanInterval(period) ==
  /\ intervalSeq' = intervalSeq + 1
  /\ intervals' = intervals \cup {intervalSeq + 1}
  /\ scanInterval' = <<intervalSeq + 1>>
  /\ periods' = Append(periods, period)

\* nothing but timers and events runs while a promise continuation is queued
NoMicrotask == microtasks = <<>>

\* a call of startScanning up to its first await, or to its end
StartScanning ==
  /\ NoMicrotask
  /\ Len(starts) < MaxStarts
  /\ IF isScanning
       THEN /\ starts' = Append(starts, StartCall("returned"))
            /\ UNCHANGED <<isScanning, scanInterval, intervals, intervalSeq, periods>>
     ELSE IF ~isInitialized
       THEN /\ starts' = Append(starts, StartCall("waiting"))
            /\ UNCHANGED <<isScanning, scanInterval, intervals, intervalSeq, periods>>
     ELSE /\ intervalSeq < MaxIntervals
          /\ isScanning' = TRUE
          /\ setScanInterval(currentMode.interval)
          /\ starts' = Append(starts, StartCall("started"))
  /\ UNCHANGED <<now, codecVars, relayVars, linkVars, lifeVars, cryptoVars, graphVars, channelVars, meshVars, scanVars,
                 isInitialized, initializing, microtasks, stops, scans>>

\* initializeService reaches its end: the flag is set, service-initialized
\* is emitted and the listener of every waiting call resolves its promise
InitializeCompletes ==
  /\ NoMicrotask
  /\ initializing
  /\ isInitialized' = TRUE
  /\ initializing' = FALSE
  /\ starts' = [k \in DOMAIN starts |->
                  IF starts[k].state = "waiting"
                    THEN [starts[k] EXCEPT !.state = "resolved"]
                    ELSE starts[k]]
  /\ microtasks' = SelectSeq([k \in DOMAIN starts |-> k],
                             LAMBDA k : starts[k].state = "waiting")
  /\ UNCHANGED <<now, codecVars, relayVars, linkVars, lifeVars, cryptoVars, graphVars, channelVars, meshVars, scanVars,
                 isScanning, scanInterval, intervals, intervalSeq, stops, scans,
                 periods>>

\* initializeService catches an error and emits service-error
InitializeFails ==
  /\ NoMicrotask
  /\ initializing
  /\ initializing' = FALSE
  /\ UNCHANGED <<now, codecVars, relayVars, linkVars, lifeVars, cryptoVars, graphVars, channelVars, meshVars, scanVars,
                 isInitialized, isScanning, scanInterval, intervals, intervalSeq,
                 starts, microtasks, stops, scans, periods>>

\* the timeout of waitForInitialization rejects and startScanning throws
WaitTimesOut(k) ==
  /\ NoMicrotask
  /\ k \in DOMAIN starts
  /\ starts[k].state = "waiting"
  /\ ~isInitialized
  /\ starts' = [starts EXCEPT ![k].state = "rejected"]
  /\ UNCHANGED <<now, codecVars, relayVars, linkVars, lifeVars, cryptoVars, graphVars, channelVars, meshVars, scanVars,
                 isInitialized, initializing, isScanning, scanInterval, intervals,
                 intervalSeq, microtasks, stops, scans, periods>>

\* startScanning after its await
StartResumes ==
  /\ microtasks # <<>>
  /\ intervalSeq < MaxIntervals
  /\ isScanning' = TRUE
  /\ setScanInterval(currentMode.interval)
  /\ starts' = [starts EXCEPT ![Head(microtasks)].state = "started"]
  /\ microtasks' = Tail(microtasks)
  /\ UNCHANGED <<now, codecVars, relayVars, linkVars, lifeVars, cryptoVars, graphVars, channelVars, meshVars, scanVars,
                 isInitialized, initializing, stops, scans>>

stopScanning ==
  /\ isScanning' = FALSE
  /\ scanInterval' = <<>>
  /\ intervals' = IF scanInterval # <<>> THEN intervals \ {scanInterval[1]}
                  ELSE intervals

StopScanning ==
  /\ NoMicrotask
  /\ stops < MaxStops
  /\ stopScanning
  /\ stops' = stops + 1
  /\ UNCHANGED <<now, codecVars, relayVars, linkVars, lifeVars, cryptoVars, graphVars, channelVars, meshVars, scanVars,
                 isInitialized, initializing, intervalSeq, starts, microtasks,
                 scans, periods>>

\* the optimizer changed the scan mode
ApplyScanMode(mode) ==
  /\ NoMicrotask
  /\ isInitialized
  /\ intervalSeq < MaxIntervals
  /\ applyScanMode(mode)
  /\ UNCHANGED <<now, codecVars, relayVars, linkVars, lifeVars, cryptoVars, graphVars, channelVars, meshVars, scanVars,
                 isInitialized, initializing, isScanning, starts, microtasks,
                 stops, scans>>

\* an interval that was not cleared fires: performDiscoveryScan
DiscoveryScanFires(handle) ==
  /\ NoMicrotask
  /\ handle \in intervals
  /\ scans < MaxScans
  /\ scans' = scans + 1
  /\ UNCHANGED <<now, codecVars, relayVars, linkVars, lifeVars, cryptoVars, graphVars, channelVars, meshVars, scanVars,
                 isInitialized, initializing, isScanning, scanInterval, intervals,
                 intervalSeq, starts, microtasks, stops, periods>>

\* the service when its constructor returned
BluetoothIdle ==
  /\ isInitialized = FALSE
  /\ initializing = TRUE
  /\ isScanning = FALSE
  /\ scanInterval = <<>>
  /\ intervals = {}
  /\ intervalSeq = 0
  /\ starts = <<>>
  /\ microtasks = <<>>
  /\ stops = 0
  /\ scans = 0
  /\ periods = <<>>

\* ------------------------------------------------------------------------
\* Graph analysis: partitions (service worker), bridges and paths
\* (MeshCoordinator)
\* ------------------------------------------------------------------------

GraphSize == 4

GraphIds == 1..GraphSize

LocalId == SetMin(GraphIds)

\* Array.prototype.find by id
findNode(list, id) ==
  LET at == {k \in 1..Len(list) : list[k].id = id}
  IN  IF at = {} THEN <<>> ELSE <<list[SetMin(at)]>>

\* what would be pushed were the routes followed from their source only
RECURSIVE connectedNodesForward(_, _, _, _)
connectedNodesForward(list, routes, id, visited) ==
  IF routes = <<>> THEN <<>>
  ELSE LET route == Head(routes)
           target == IF route.source = id
                       THEN findNode(list, route.destination) ELSE <<>>
       IN  SelectSeq(target, LAMBDA n : n.id \notin visited)
             \o connectedNodesForward(list, Tail(routes), id, visited)

\* what routes.forEach pushes for the node current: per route, the target
\* of a route leaving it and then the source of a route reaching it
RECURSIVE connectedNodes(_, _, _, _)
connectedNodes(list, routes, id, visited) ==
  IF routes = <<>> THEN <<>>
  ELSE LET route == Head(routes)
           target == IF route.source = id
                       THEN findNode(list, route.destination) ELSE <<>>
           source == IF route.destination = id
                       THEN findNode(list, route.source) ELSE <<>>
           unseen(found) == SelectSeq(found, LAMBDA n : n.id \notin visited)
       IN  unseen(target) \o unseen(source)
             \o connectedNodes(list, Tail(routes), id, visited)

\* the while loop of detectNetworkPartitions
RECURSIVE collectPartition(_, _, _, _, _)
collectPartition(list, routes, stack, visited, partition) ==
  IF stack = <<>> THEN [visited |-> visited, partition |-> partition]
  ELSE LET current == stack[Len(stack)]
           rest == SubSeq(stack, 1, Len(stack) - 1)
       IN  IF current.id \in visited
             THEN collectPartition(list, routes, rest, visited, partition)
             ELSE collectPartition(
                    list, routes,
                    rest \o connectedNodes(list, routes, current.id,
                                           visited \cup {current.id}),
                    visited \cup {current.id}, Append(partition, current))

\* nodes.forEach of detectNetworkPartitions, from the k-th node on
RECURSIVE partitionsFrom(_, _, _, _, _)
partitionsFrom(list, routes, k, visited, partitions) ==
  IF k > Len(list) THEN partitions
  ELSE IF list[k].id \in visited
    THEN partitionsFrom(list, routes, k + 1, visited, partitions)
  ELSE LET found == collectPartition(list, routes, <<list[k]>>, visited, <<>>)
       IN  partitionsFrom(list, routes, k + 1, found.visited,
                          IF Len(found.partition) > 0
                            THEN Append(partitions, found.partition)
                            ELSE partitions)

detectNetworkPartitions(list, routes) == partitionsFrom(list, routes, 1, {}, <<>>)

\* the concatenation of the sequences of a sequence
RECURSIVE Flatten(_)
Flatten(lists) ==
  IF lists = <<>> THEN <<>> ELSE Head(lists) \o Flatten(Tail(lists))

\* MeshCoordinator.getMeshTopology
getMeshTopology(table) ==
  [nodes |-> table,
   connections |->
     Flatten([k \in 1..Len(table) |->
                [j \in 1..Len(table[k].knownPeers) |->
                   [from |-> table[k].id, to |-> table[k].knownPeers[j]]]]),
   bridges |-> [k \in 1..Len(SelectSeq(table, LAMBDA n : n.capabilities.isBridge))
                  |-> SelectSeq(table, LAMBDA n : n.capabilities.isBridge)[k].id]]

\* what connections.forEach pushes for nodeId
RECURSIVE connectedIds(_, _, _)
connectedIds(links, nodeId, visited) ==
  IF links = <<>> THEN <<>>
  ELSE LET connection == Head(links)
           to == IF connection.from = nodeId /\ connection.to \notin visited
                   THEN <<connection.to>> ELSE <<>>
           from == IF connection.to = nodeId /\ connection.from \notin visited
                     THEN <<connection.from>> ELSE <<>>
       IN  to \o from \o connectedIds(Tail(links), nodeId, visited)

\* the while loop of isGraphDisconnected: the ids it visits
RECURSIVE visitGraph(_, _, _)
visitGraph(links, stack, visited) ==
  IF stack = <<>> THEN visited
  ELSE LET nodeId == stack[Len(stack)]
           rest == SubSeq(stack, 1, Len(stack) - 1)
       IN  IF nodeId \in visited THEN visitGraph(links, rest, visited)
           ELSE visitGraph(links,
                           rest \o connectedIds(links, nodeId,
                                                visited \cup {nodeId}),
                           visited \cup {nodeId})

\* MeshCoordinator.isGraphDisconnected
isGraphDisconnected(topology) ==
  IF Len(topology.nodes) = 0 THEN FALSE
  ELSE Cardinality(visitGraph(topology.connections, <<topology.nodes[1].id>>, {}))
         < Len(topology.nodes)

\* the topology identifyBridgeNodes tests for the node id
withoutNode(topology, id) ==
  [topology EXCEPT
     !.nodes = SelectSeq(@, LAMBDA n : n.id # id),
     !.connections = SelectSeq(@, LAMBDA c : c.from # id /\ c.to # id)]

\* MeshCoordinator.identifyBridgeNodes
identifyBridgeNodes(topology) ==
  LET found == SelectSeq(topology.nodes,
                         LAMBDA n : isGraphDisconnected(withoutNode(topology, n.id)))
  IN  [k \in 1..Len(found) |-> found[k].id]

\* a search that follows the peer listed last first
RECURSIVE searchPathDepthFirst(_, _, _, _)
searchPathDepthFirst(table, targetId, queue, visited) ==
  IF queue = <<>> THEN <<>>
  ELSE LET last == queue[Len(queue)]
           rest == SubSeq(queue, 1, Len(queue) - 1)
           seen == visited \cup {last.nodeId}
           peers == IF HasNode(table, last.nodeId)
                      THEN SelectSeq(GetNode(table, last.nodeId).knownPeers,
                                     LAMBDA p : p \notin seen)
                      ELSE <<>>
       IN  IF last.nodeId = targetId THEN last.path
           ELSE IF last.nodeId \in visited
             THEN searchPathDepthFirst(table, targetId, rest, visited)
           ELSE searchPathDepthFirst(
                  table, targetId,
                  rest \o [k \in 1..Len(peers) |->
                             [nodeId |-> peers[k],
                              path |-> Append(last.path, peers[k])]],
                  seen)

\* the while loop of findOptimalPath
RECURSIVE searchPath(_, _, _, _)
searchPath(table, targetId, queue, visited) ==
  IF queue = <<>> THEN <<>>
  ELSE LET nodeId == Head(queue).nodeId
           path == Head(queue).path
           seen == visited \cup {nodeId}
           peers == IF HasNode(table, nodeId)
                      THEN SelectSeq(GetNode(table, nodeId).knownPeers,
                                     LAMBDA p : p \notin seen)
                      ELSE <<>>
       IN  IF nodeId = targetId THEN path
           ELSE IF nodeId \in visited
             THEN searchPath(table, targetId, Tail(queue), visited)
           ELSE searchPath(table, targetId,
                           Tail(queue) \o
                             [k \in 1..Len(peers) |->
                                [nodeId |-> peers[k], path |-> Append(path, peers[k])]],
                           seen)

\* MeshCoordinator.findOptimalPath
findOptimalPath(table, nodeId, targetId) ==
  searchPath(table, targetId, <<[nodeId |-> nodeId, path |-> <<nodeId>>]>>, {})

\* --- inputs ---

\* the ids of S in ascending order
Ascending(S) == SelectSeq([k \in GraphIds |-> k], LAMBDA id : id \in S)

\* node tables: the local node and up to two more, each knowing some of the
\* four ids; the id GraphSize is a peer that is nobody's node
TableOf(ids, peersOf) ==
  [k \in 1..Len(ids) |-> MeshNode(ids[k], 0, Ascending(peersOf[ids[k]]), 0)]

Tables ==
  {TableOf(ids, peersOf) :
     ids \in {<<1, 2, 3>>, <<3, 1, 2>>},
     peersOf \in [1..3 -> SUBSET GraphIds]}
  \cup {TableOf(<<1, 2>>, peersOf) : peersOf \in [1..3 -> SUBSET {1, 2, 4}]}

\* the nodes and routes read from the service worker's database
NodeLists ==
  {[k \in 1..Len(ids) |-> MeshNode(ids[k], 0, <<>>, 0)] :
     ids \in {<<1, 2, 3, 4>>, <<4, 2, 3, 1>>, <<1, 2, 3>>}}

AllRoutes ==
  <<[source |-> 1, destination |-> 2], [source |-> 3, destination |-> 1],
    [source |-> 1, destination |-> 4], [source |-> 3, destination |-> 2],
    [source |-> 2, destination |-> 4], [source |-> 4, destination |-> 3]>>

RouteLists ==
  {SelectSeq(AllRoutes, LAMBDA r : r \in S) :
     S \in SUBSET {AllRoutes[k] : k \in 1..Len(AllRoutes)}}

NoAnswer == [op |-> "none", target |-> 0, value |-> <<>>]

\* --- steps ---

DetectNetworkPartitions ==
  /\ graphAnswer.op = "none"
  /\ graphAnswer' = [op |-> "partitions", target |-> 0,
                     value |-> detectNetworkPartitions(graphNodes, graphRoutes)]
  /\ UNCHANGED <<now, codecVars, relayVars, linkVars, lifeVars, cryptoVars, channelVars, meshVars, scanVars,
                 bluetoothVars, graphNodes, graphRoutes>>

IdentifyBridgeNodes ==
  /\ graphAnswer.op = "none"
  /\ graphAnswer' = [op |-> "bridges", target |-> 0,
                     value |-> identifyBridgeNodes(getMeshTopology(graphNodes))]
  /\ UNCHANGED <<now, codecVars, relayVars, linkVars, lifeVars, cryptoVars, channelVars, meshVars, scanVars,
                 bluetoothVars, graphNodes, graphRoutes>>

\* isGraphDisconnected of the topology of the table
IsGraphDisconnected ==
  /\ graphAnswer.op = "none"
  /\ graphRoutes = <<>>
  /\ graphAnswer' = [op |-> "disconnected", target |-> 0,
                     value |-> isGraphDisconnected(getMeshTopology(graphNodes))]
  /\ UNCHANGED <<now, codecVars, relayVars, linkVars, lifeVars, cryptoVars, channelVars, meshVars, scanVars,
                 bluetoothVars, graphNodes, graphRoutes>>

FindOptimalPath(targetId) ==
  /\ graphAnswer.op = "none"
  /\ graphAnswer' = [op |-> "path", target |-> targetId,
                     value |-> findOptimalPath(graphNodes, LocalId, targetId)]
  /\ UNCHANGED <<now, codecVars, relayVars, linkVars, lifeVars, cryptoVars, channelVars, meshVars, scanVars,
                 bluetoothVars, graphNodes, graphRoutes>>

\* no graph under analysis
GraphIdle ==
  /\ graphNodes = <<>>
  /\ graphRoutes = <<>>
  /\ graphAnswer = NoAnswer

\* ------------------------------------------------------------------------
\* CryptoService: channel encryption and the key lifecycle
\* ------------------------------------------------------------------------
\* A JavaScript string is the sequence of its UTF-16 code units.  The
\* primitives of tweetnacl and scrypt-js are modelled as ideal ones: distinct
\* inputs of scrypt give distinct keys, and secretbox.open returns the
\* message exactly for the key and nonce the box was made with.

MaxCryptoCalls == 3

BASE64_PAD == 64
REPLACEMENT == 65533
BYTE_ORDER_MARK == 65279
HIGH_SURROGATE == 55296
LOW_SURROGATE == 56320
SURROGATE_END == 57344
COLON == 58

\* "bluchat:"
SALT_PREFIX == <<98, 108, 117, 99, 104, 97, 116, COLON>>

isHighSurrogate(unit) == HIGH_SURROGATE <= unit /\ unit < LOW_SURROGATE

isLowSurrogate(unit) == LOW_SURROGATE <= unit /\ unit < SURROGATE_END

\* the UTF-8 bytes of one code point
Utf8Of(point) ==
  IF point < 128 THEN <<point>>
  ELSE IF point < 2048 THEN <<192 + (point \div 64), 128 + (point % 64)>>
  ELSE IF point < 65536
    THEN <<224 + (point \div 4096), 128 + ((point \div 64) % 64), 128 + (point % 64)>>
  ELSE <<240 + (point \div 262144), 128 + ((point \div 4096) % 64),
         128 + ((point \div 64) % 64), 128 + (point % 64)>>

\* the UTF-16 code units of one code point
Utf16Of(point) ==
  IF point < 65536 THEN <<point>>
  ELSE <<HIGH_SURROGATE + ((point - 65536) \div 1024),
         LOW_SURROGATE + ((point - 65536) % 1024)>>

\* new TextEncoder().encode(text): a surrogate pair is one code point, a
\* surrogate on its own is replaced by U+FFFD
RECURSIVE encodeUTF8(_)
encodeUTF8(text) ==
  IF text = <<>> THEN <<>>
  ELSE IF isHighSurrogate(text[1]) /\ Len(text) > 1 /\ isLowSurrogate(text[2])
    THEN Utf8Of(65536 + (text[1] - HIGH_SURROGATE) * 1024
                  + (text[2] - LOW_SURROGATE))
           \o encodeUTF8(Tail(Tail(text)))
  ELSE IF isHighSurrogate(text[1]) \/ isLowSurrogate(text[1])
    THEN Utf8Of(REPLACEMENT) \o encodeUTF8(Tail(text))
  ELSE Utf8Of(text[1]) \o encodeUTF8(Tail(text))

\* the code points of UTF-8 bytes; a byte that starts no complete sequence
\* becomes U+FFFD
RECURSIVE decodeCodePoints(_)
decodeCodePoints(bytes) ==
  IF bytes = <<>> THEN <<>>
  ELSE LET lead == bytes[1]
           continued(n) == /\ Len(bytes) >= n
                           /\ \A k \in 2..n : bytes[k] \div 64 = 2
           low(k) == bytes[k] % 64
           after(n) == decodeCodePoints(SubSeq(bytes, n + 1, Len(bytes)))
       IN  IF lead < 128 THEN <<lead>> \o after(1)
           ELSE IF lead \div 32 = 6 /\ continued(2)
             THEN <<(lead % 32) * 64 + low(2)>> \o after(2)
           ELSE IF lead \div 16 = 14 /\ continued(3)
             THEN <<(lead % 16) * 4096 + low(2) * 64 + low(3)>> \o after(3)
           ELSE IF lead \div 8 = 30 /\ continued(4)
             THEN <<(lead % 8) * 262144 + low(2) * 4096 + low(3) * 64 + low(4)>>
                    \o after(4)
           ELSE <<REPLACEMENT>> \o after(1)

\* new TextDecoder().decode(data): ignoreBOM is false, so a byte order mark
\* at the start is dropped
decodeUTF8(data) ==
  LET points == decodeCodePoints(data)
      kept == IF points # <<>> /\ points[1] = BYTE_ORDER_MARK
                THEN Tail(points) ELSE points
  IN  Flatten([k \in 1..Len(kept) |-> Utf16Of(kept[k])])

\* btoa(String.fromCharCode(...data)): the characters of the base64 text by
\* their index in the alphabet, BASE64_PAD for "="
RECURSIVE encodeBase64(_)
encodeBase64(data) ==
  IF data = <<>> THEN <<>>
  ELSE LET n == Len(data)
           a == data[1]
           b == IF n >= 2 THEN data[2] ELSE 0
           c == IF n >= 3 THEN data[3] ELSE 0
       IN  <<a \div 4, (a % 4) * 16 + (b \div 16),
             IF n >= 2 THEN (b % 16) * 4 + (c \div 64) ELSE BASE64_PAD,
             IF n >= 3 THEN c % 64 ELSE BASE64_PAD>>
             \o encodeBase64(SubSeq(data, 4, n))

\* atob(data) as char codes
RECURSIVE decodeBase64(_)
decodeBase64(data) ==
  IF Len(data) < 4 THEN <<>>
  ELSE LET a == data[1]
           b == data[2]
           c == data[3]
           d == data[4]
           first == <<a * 4 + (b \div 16)>>
           second == IF c = BASE64_PAD THEN <<>>
                     ELSE <<(b % 16) * 16 + (c \div 4)>>
           third == IF c = BASE64_PAD \/ d = BASE64_PAD THEN <<>>
                    ELSE <<(c % 4) * 64 + d>>
       IN  first \o second \o third \o decodeBase64(SubSeq(data, 5, Len(data)))

\* scrypt.scrypt(passwordBytes, salt, 16384, 8, 1, 32)
scrypt(passwordBytes, salt) == <<Len(passwordBytes)>> \o passwordBytes \o salt

\* the authenticator of a box: a key and a nonce have one
Authenticator(key, nonce) == <<Len(key)>> \o key \o nonce

\* nacl.secretbox(messageBytes, nonce, key)
secretbox(messageBytes, nonce, key) == Authenticator(key, nonce) \o messageBytes

\* nacl.secretbox.open(ciphertext, nonce, key): the message, or null
secretboxOpen(ciphertext, nonce, key) ==
  LET tag == Authenticator(key, nonce)
  IN  IF Len(ciphertext) >= Len(tag) /\ SubSeq(ciphertext, 1, Len(tag)) = tag
        THEN <<SubSeq(ciphertext, Len(tag) + 1, Len(ciphertext))>>
        ELSE <<>>

\* `${channelName}:${password}`
CacheKey(channelName, password) == channelName \o <<COLON>> \o password

\* Map.has, Map.get, Map.set on a Map kept as the sequence of its entries
HasEntry(map, key) == \E k \in 1..Len(map) : map[k].key = key

GetEntry(map, key) == map[CHOOSE k \in 1..Len(map) : map[k].key = key]

SetEntry(map, entry) ==
  IF HasEntry(map, entry.key)
    THEN [k \in 1..Len(map) |-> IF map[k].key = entry.key THEN entry ELSE map[k]]
    ELSE Append(map, entry)

\* what deriveChannelKey computes when the cache has no entry
derivedKey(channelName, password) ==
  scrypt(encodeUTF8(password), encodeUTF8(SALT_PREFIX \o channelName))

\* encryptForChannel once it has the key
sealWith(key, message, nonce) ==
  [nonce |-> encodeBase64(nonce),
   ciphertext |-> encodeBase64(secretbox(encodeUTF8(message), nonce, key))]

\* decryptFromChannel once it has the key
openWith(key, encryptedData) ==
  LET decrypted == secretboxOpen(decodeBase64(encryptedData.ciphertext),
                                 decodeBase64(encryptedData.nonce), key)
  IN  IF decrypted = <<>>
        THEN [outcome |-> "error", value |-> <<>>]
        ELSE [outcome |-> "value", value |-> decodeUTF8(decrypted[1])]

\* --- inputs ---

\* "hi", "", a text that starts with a byte order mark, a high surrogate on
\* its own, a surrogate pair, U+00E9
Texts ==
  {<<104, 105>>, <<>>, <<BYTE_ORDER_MARK, 104>>, <<HIGH_SURROGATE>>,
   <<55357, 56832>>, <<233>>}

\* "a" and "a:b"
CryptoChannels == {<<97>>, <<97, COLON, 98>>}

\* "", "p", "b:p", a high surrogate on its own, U+FFFD
CryptoPasswords ==
  {<<>>, <<112>>, <<98, COLON, 112>>, <<HIGH_SURROGATE>>, <<REPLACEMENT>>}

\* nacl.randomBytes(24), shortened
Nonces == {<<7>>, <<200>>}

\* the box public keys of two peers
PeerPublicKeys == {<<1>>, <<2>>}

NotSealed == <<>>

NotOpened == [outcome |-> "none", value |-> <<>>, of |-> NotSealed,
              channelName |-> <<>>, password |-> <<>>]

\* --- steps ---

\* the continuation of encryptForChannel or decryptFromChannel after
\* deriveChannelKey returned key
Continue(call, key) ==
  IF call.op = "encrypt"
    THEN /\ sealed' = <<[data |-> sealWith(key, call.message, call.nonce),
                         message |-> call.message,
                         channelName |-> call.channelName,
                         password |-> call.password]>>
         /\ UNCHANGED opened
    ELSE /\ opened' =
              [outcome |-> openWith(key, call.data.data).outcome,
               value |-> openWith(key, call.data.data).value,
               of |-> call.data, channelName |-> call.channelName,
               password |-> call.password]
         /\ UNCHANGED sealed

\* a call of encryptForChannel or decryptFromChannel: deriveChannelKey
\* returns the cached key, or starts scrypt
ChannelCall(call) ==
  LET cacheKey == CacheKey(call.channelName, call.password)
  IN  /\ cryptoSeq < MaxCryptoCalls
      /\ cryptoSeq' = cryptoSeq + 1
      /\ IF HasEntry(channelKeys, cacheKey)
           THEN /\ Continue(call, GetEntry(channelKeys, cacheKey).value)
                /\ UNCHANGED deriving
           ELSE /\ deriving' = Append(deriving, [call EXCEPT !.id = cryptoSeq + 1])
                /\ UNCHANGED <<sealed, opened>>
      /\ UNCHANGED <<now, codecVars, relayVars, linkVars, lifeVars, channelVars, meshVars, scanVars,
                     bluetoothVars, graphVars, signKeyPair, boxKeyPair,
                     keyPairSeq, storedKeys, channelKeys, peerKeys, wipedAt>>

EncryptForChannel(message, channelName, password, nonce) ==
  /\ sealed = NotSealed
  /\ \A k \in 1..Len(deriving) : deriving[k].op # "encrypt"
  /\ ChannelCall([op |-> "encrypt", id |-> 0, message |-> message,
                  channelName |-> channelName, password |-> password,
                  nonce |-> nonce, data |-> NotSealed])

\* decryptFromChannel of what encryptForChannel returned
DecryptFromChannel(channelName, password) ==
  /\ sealed # NotSealed
  /\ ChannelCall([op |-> "decrypt", id |-> 0, message |-> <<>>,
                  channelName |-> channelName, password |-> password,
                  nonce |-> <<>>, data |-> sealed[1]])

\* the promise of scrypt is fulfilled: deriveChannelKey stores the key and
\* returns it to its caller
ScryptSettles ==
  /\ deriving # <<>>
  /\ LET call == Head(deriving)
         key == derivedKey(call.channelName, call.password)
     IN  /\ channelKeys' =
              SetEntry(channelKeys,
                       [key |-> CacheKey(call.channelName, call.password),
                        value |-> key, by |-> call.id])
         /\ Continue(call, key)
  /\ deriving' = Tail(deriving)
  /\ UNCHANGED <<now, codecVars, relayVars, linkVars, lifeVars, channelVars, meshVars, scanVars,
                 bluetoothVars, graphVars, signKeyPair, boxKeyPair, keyPairSeq,
                 storedKeys, peerKeys, cryptoSeq, wipedAt>>

\* performKeyExchange: nacl.box.before of the peer's key and the own secret
PerformKeyExchange(peerBoxPublicKey) ==
  /\ cryptoSeq < MaxCryptoCalls
  /\ boxKeyPair # 0
  /\ cryptoSeq' = cryptoSeq + 1
  /\ peerKeys' = SetEntry(peerKeys,
                          [key |-> peerBoxPublicKey,
                           value |-> <<peerBoxPublicKey, boxKeyPair>>,
                           by |-> cryptoSeq + 1])
  /\ UNCHANGED <<now, codecVars, relayVars, linkVars, lifeVars, channelVars, meshVars, scanVars,
                 bluetoothVars, graphVars, signKeyPair, boxKeyPair, keyPairSeq,
                 storedKeys, channelKeys, deriving, sealed, opened, wipedAt>>

\* wipeKeys, which has no await
WipeKeys ==
  /\ cryptoSeq < MaxCryptoCalls
  /\ cryptoSeq' = cryptoSeq + 1
  /\ channelKeys' = <<>>
  /\ peerKeys' = <<>>
  /\ signKeyPair' = keyPairSeq + 1
  /\ boxKeyPair' = keyPairSeq + 2
  /\ keyPairSeq' = keyPairSeq + 2
  /\ storedKeys' = [sign |-> keyPairSeq + 1, box |-> keyPairSeq + 2]
  /\ wipedAt' = [seq |-> cryptoSeq + 1, sign |-> signKeyPair, box |-> boxKeyPair]
  /\ UNCHANGED <<now, codecVars, relayVars, linkVars, lifeVars, channelVars, meshVars, scanVars,
                 bluetoothVars, graphVars, deriving, sealed, opened>>

\* the service after init() found no stored keys
CryptoIdle ==
  /\ signKeyPair = 1
  /\ boxKeyPair = 2
  /\ keyPairSeq = 2
  /\ storedKeys = [sign |-> 1, box |-> 2]
  /\ channelKeys = <<>>
  /\ peerKeys = <<>>
  /\ deriving = <<>>
  /\ sealed = NotSealed
  /\ opened = NotOpened
  /\ cryptoSeq = 0
  /\ wipedAt = [seq |-> 0, sign |-> 0, box |-> 0]

\* ------------------------------------------------------------------------
\* One MeshCoordinator from its constructor to destroy(), and the service
\* worker it registers
\* ------------------------------------------------------------------------

MaxLifeOps == 3
MaxBeats == 2
MaxSyncs == 1
STALE_AFTER == 120000

\* the coordinator as a value
LifeCoordinator ==
  [nodeId |-> LocalId, nodes |-> lifeNodes, sent |-> <<>>, emitted |-> <<>>,
   handled |-> <<>>]

\* broadcastMessage with a BroadcastChannel: postMessage on a channel that
\* was closed throws InvalidStateError and the message goes nowhere
wentOut(c) == IF broadcastChannel = "open" THEN c.sent ELSE <<>>

\* a callback leaves the coordinator as c says
LifeStep(c) ==
  /\ lifeNodes' = c.nodes
  /\ lifeSent' = lifeSent \o
       [k \in 1..Len(wentOut(c)) |->
          [type |-> wentOut(c)[k].type, afterDestroy |-> destroyCalled]]
  /\ lifeEmitted' = lifeEmitted \cup {c.emitted[k].type : k \in 1..Len(c.emitted)}

\* one call of broadcastHeartbeat: the registered local node it found, what
\* went out
Beat(kind, before, after) ==
  [kind |-> kind, running |-> ~destroyCalled,
   node |-> IF HasNode(before.nodes, LocalId)
              THEN <<GetNode(before.nodes, LocalId)>> ELSE <<>>,
   sent |-> wentOut(after)]

\* initializeCoordination after await registerServiceWorker, which ended
\* with a worker or caught its error: startHeartbeat with its first
\* heartbeat, startSynchronization, registerNode, emit
RegistrationSettles(worker) ==
  /\ lifePhase = "registering"
  /\ lifePhase' = "initialized"
  /\ serviceWorker' = worker
  /\ heartbeatInterval' = "active"
  /\ syncInterval' = "active"
  /\ LET first == broadcastHeartbeat(LifeCoordinator)
         registered == registerNode(first, MeshNode(LocalId, now, <<>>, 0))
     IN  /\ LifeStep(emit(registered, "coordinator-initialized", LocalId))
         /\ beats' = Append(beats, Beat("initial", LifeCoordinator, first))
  /\ UNCHANGED <<now, codecVars, relayVars, linkVars, channelVars, meshVars, scanVars,
                 bluetoothVars, graphVars, cryptoVars, broadcastChannel,
                 destroyCalled, workerInbox, lifeOps, syncs, partitionFound>>

\* the callback of heartbeatInterval
HeartbeatTimer ==
  /\ heartbeatInterval = "active"
  /\ Len(beats) < MaxBeats
  /\ LifeStep(broadcastHeartbeat(LifeCoordinator))
  /\ beats' = Append(beats, Beat("timer", LifeCoordinator,
                                 broadcastHeartbeat(LifeCoordinator)))
  /\ UNCHANGED <<now, codecVars, relayVars, linkVars, channelVars, meshVars, scanVars,
                 bluetoothVars, graphVars, cryptoVars, lifePhase,
                 heartbeatInterval, syncInterval, broadcastChannel,
                 serviceWorker, destroyCalled, workerInbox, lifeOps, syncs,
                 partitionFound>>

\* the callback of syncInterval
SyncTimer ==
  /\ syncInterval = "active"
  /\ syncs < MaxSyncs
  /\ syncs' = syncs + 1
  /\ LifeStep(synchronizeMeshState(LifeCoordinator))
  /\ UNCHANGED <<now, codecVars, relayVars, linkVars, channelVars, meshVars, scanVars,
                 bluetoothVars, graphVars, cryptoVars, lifePhase,
                 heartbeatInterval, syncInterval, broadcastChannel,
                 serviceWorker, destroyCalled, beats, workerInbox, lifeOps,
                 partitionFound>>

\* clearInterval of a handle that is set
cleared(interval) == IF interval = "active" THEN "cleared" ELSE interval

\* MeshCoordinator.destroy
DestroyCoordinator ==
  /\ ~destroyCalled
  /\ lifeOps < MaxLifeOps
  /\ lifeOps' = lifeOps + 1
  /\ destroyCalled' = TRUE
  /\ heartbeatInterval' = cleared(heartbeatInterval)
  /\ syncInterval' = cleared(syncInterval)
  /\ broadcastChannel' = "closed"
  /\ lifeNodes' = <<>>
  /\ UNCHANGED <<now, codecVars, relayVars, linkVars, channelVars, meshVars, scanVars,
                 bluetoothVars, graphVars, cryptoVars, lifePhase, serviceWorker,
                 lifeSent, beats, lifeEmitted, workerInbox, syncs,
                 partitionFound>>

\* broadcastChannel.onmessage
ChannelMessage(message) ==
  /\ broadcastChannel = "open"
  /\ lifeOps < MaxLifeOps
  /\ lifeOps' = lifeOps + 1
  /\ LifeStep(handleCoordinationMessage(LifeCoordinator, message))
  /\ UNCHANGED <<now, codecVars, relayVars, linkVars, channelVars, meshVars, scanVars,
                 bluetoothVars, graphVars, cryptoVars, lifePhase,
                 heartbeatInterval, syncInterval, broadcastChannel,
                 serviceWorker, destroyCalled, beats, workerInbox, syncs,
                 partitionFound>>

\* what another tab sends
LifeMessages ==
  {CoordinationMessage("HEARTBEAT", OtherId,
                       [capabilities |-> getNodeCapabilities,
                        knownPeers |-> <<>>, routingVersion |-> 0],
                       PROTOCOL_VERSION),
   CoordinationMessage("SYNC_REQUEST", OtherId, [routingVersion |-> 0],
                       PROTOCOL_VERSION)}

\* --- the service worker ---

\* the issues analyzeMeshHealth finds, in its order
analyzeMeshHealth(list, routes) ==
  LET staleNodes == SelectSeq(list, LAMBDA n : now - n.lastHeartbeat > STALE_AFTER)
      isolatedNodes ==
        SelectSeq(list, LAMBDA n :
                          ~\E k \in 1..Len(routes) :
                             routes[k].source = n.id \/ routes[k].destination = n.id)
      partitions == detectNetworkPartitions(list, routes)
      ids(found) == [k \in 1..Len(found) |-> found[k].id]
      issues ==
        (IF Len(staleNodes) > 0
           THEN <<[type |-> "stale-nodes", severity |-> "medium",
                   nodes |-> ids(staleNodes)]>>
           ELSE <<>>)
        \o (IF Len(isolatedNodes) > 0
              THEN <<[type |-> "isolated-nodes", severity |-> "high",
                      nodes |-> ids(isolatedNodes)]>>
              ELSE <<>>)
        \o (IF Len(partitions) > 1
              THEN <<[type |-> "network-partition", severity |-> "critical",
                      partitions |-> [k \in 1..Len(partitions) |->
                                        ids(partitions[k])]]>>
              ELSE <<>>)
  IN  [healthy |-> Len(issues) = 0, issues |-> issues]

\* a message a client gets from the worker; action is a field only the
\* coordinator's switch looks for
WorkerMessage(type, action, payload) ==
  [type |-> type, action |-> action, payload |-> payload]

\* the graphs in the worker's database: two pairs, one chain, no route
WorkerRoutes ==
  {<<AllRoutes[1], AllRoutes[6]>>,
   <<AllRoutes[1], AllRoutes[2], AllRoutes[3]>>,
   <<>>}

WorkerNodes == [k \in GraphIds |-> MeshNode(k, now, <<>>, 0)]

\* performMeshSync: the analysis, and the alert to the clients when it
\* found issues
PerformMeshSync(routes) ==
  /\ lifeOps < MaxLifeOps
  /\ lifeOps' = lifeOps + 1
  /\ LET meshHealth == analyzeMeshHealth(WorkerNodes, routes)
     IN  /\ workerInbox' =
              IF Len(meshHealth.issues) > 0
                THEN Append(workerInbox,
                            WorkerMessage("mesh-health-alert", <<>>, meshHealth))
                ELSE workerInbox
         /\ partitionFound' =
              (partitionFound
                 \/ Len(detectNetworkPartitions(WorkerNodes, routes)) > 1)
  /\ UNCHANGED <<now, codecVars, relayVars, linkVars, channelVars, meshVars, scanVars,
                 bluetoothVars, graphVars, cryptoVars, lifePhase, lifeNodes,
                 heartbeatInterval, syncInterval, broadcastChannel,
                 serviceWorker, destroyCalled, lifeSent, beats, lifeEmitted,
                 syncs>>

\* handleCoordinationMessage of the worker: what another client sent is
\* passed on
WorkerForwards(message) ==
  /\ lifeOps < MaxLifeOps
  /\ lifeOps' = lifeOps + 1
  /\ workerInbox' = Append(workerInbox,
                           WorkerMessage("mesh-coordination", <<>>, message))
  /\ UNCHANGED <<now, codecVars, relayVars, linkVars, channelVars, meshVars, scanVars,
                 bluetoothVars, graphVars, cryptoVars, lifePhase, lifeNodes,
                 heartbeatInterval, syncInterval, broadcastChannel,
                 serviceWorker, destroyCalled, lifeSent, beats, lifeEmitted,
                 syncs, partitionFound>>

\* MeshCoordinator.handleNetworkPartition
handleNetworkPartition(c) ==
  broadcastMessage(emit(c, "network-partition", c.nodeId), "SYNC_REQUEST",
                   [urgent |-> TRUE, reason |-> "partition-recovery",
                    routingVersion |-> getLocalRoutingVersion(c)])

\* MeshCoordinator.handleStaleNodes
handleStaleNodes(c, staleNodeIds) ==
  emitEach([c EXCEPT !.nodes = SelectSeq(@, LAMBDA n :
                                 ~\E k \in 1..Len(staleNodeIds) :
                                    staleNodeIds[k] = n.id)],
           "node-removed", staleNodeIds)

\* the switch over the issues of a health alert, from the k-th on
RECURSIVE handleIssues(_, _, _)
handleIssues(c, issues, k) ==
  IF k > Len(issues) THEN c
  ELSE handleIssues(
         CASE issues[k].type = "stale-nodes" -> handleStaleNodes(c, issues[k].nodes)
           [] issues[k].type = "isolated-nodes" -> emit(c, "nodes-isolated", c.nodeId)
           [] issues[k].type = "partition" -> handleNetworkPartition(c)
           [] OTHER -> c,
         issues, k + 1)

\* MeshCoordinator.handleMeshHealthAlert
handleMeshHealthAlert(c, payload) ==
  handleIssues(emit(c, "mesh-health-alert", c.nodeId), payload.issues, 1)

\* MeshCoordinator.handleServiceWorkerMessage
handleServiceWorkerMessage(c, data) ==
  CASE data.action = <<"mesh-update">> -> emit(c, "service-worker-update", c.nodeId)
    [] data.action = <<"background-scan-result">> ->
         emit(c, "background-scan-result", c.nodeId)
    [] data.action = <<"mesh-health-alert">> -> handleMeshHealthAlert(c, data.payload)
    [] data.action = <<"route-optimization">> -> emit(c, "route-optimization", c.nodeId)
    [] data.action = <<"network-partition-detected">> -> handleNetworkPartition(c)
    [] OTHER -> c

\* the listener registerServiceWorker adds to navigator.serviceWorker
onWorkerMessage(c, data) ==
  IF data.type = "mesh-coordination" THEN handleServiceWorkerMessage(c, data)
  ELSE c

\* a message of the worker reaches the client, which listens once the
\* registration succeeded
ClientReceives ==
  /\ workerInbox # <<>>
  /\ serviceWorker = "active"
  /\ workerInbox' = Tail(workerInbox)
  /\ LifeStep(onWorkerMessage(LifeCoordinator, Head(workerInbox)))
  /\ UNCHANGED <<now, codecVars, relayVars, linkVars, channelVars, meshVars, scanVars,
                 bluetoothVars, graphVars, cryptoVars, lifePhase,
                 heartbeatInterval, syncInterval, broadcastChannel,
                 serviceWorker, destroyCalled, beats, lifeOps, syncs,
                 partitionFound>>

\* the coordinator inside its constructor: the channel is open and
\* initializeCoordination waits for registerServiceWorker
LifeIdle ==
  /\ lifePhase = "registering"
  /\ lifeNodes = <<>>
  /\ heartbeatInterval = "null"
  /\ syncInterval = "null"
  /\ broadcastChannel = "open"
  /\ serviceWorker = "null"
  /\ destroyCalled = FALSE
  /\ lifeSent = <<>>
  /\ beats = <<>>
  /\ lifeEmitted = {}
  /\ workerInbox = <<>>
  /\ lifeOps = 0
  /\ syncs = 0
  /\ partitionFound = FALSE

\* the codec variables while the relay engine runs
CodecIdle ==
  /\ input = TextMessage(ShortText)
  /\ packets = <<>>
  /\ decoded = [kind |-> "none", msg |-> NoMessage]
  /\ phase = "idle"

\* ------------------------------------------------------------------------
\* BluetoothService.connectToDevice, await by await, for a device that
\* offers the service and the characteristic
\* ------------------------------------------------------------------------

MaxLinks == 3

\* the devices that offer a usable service
LinkPeers == RelayPeers \ MockPeers

\* what an instance of ScanningOptimizer can be called with: its own methods
\* and those of EventEmitter
ScanningOptimizerMethods ==
  {"initializeStrategies", "startOptimization", "stopOptimization",
   "recordScanStats", "getCurrentMode", "setScanMode", "optimizeScanMode",
   "getCurrentContext", "getBatteryLevel", "isDeviceCharging",
   "initializeConnectionTracking", "getActiveConnectionCount",
   "setActiveConnectionCount", "getTimeSinceLastConnection",
   "isAppInForeground", "getRecentStats", "calculateAverage",
   "isDifferentMode", "getOptimizationStats", "destroy",
   "on", "off", "emit"}

\* the call of a property the object does not have throws a TypeError
IsNotAFunction(method) == method \notin ScanningOptimizerMethods

LinkIdle == linkCalls = <<>>

\* handleDisconnection(deviceId): the three Maps drop the device, the
\* optimizer is given the size of the table and then told connection-lost
handleDisconnection(deviceId) ==
  LET remaining == SelectSeq(connections, LAMBDA e : e.id # deviceId)
  IN  /\ connections' = remaining
      /\ meshRoutes' =
           [q \in DeviceIds |->
              IF q = deviceId \/ meshRoutes[q] = Undefined THEN Undefined
              ELSE Some(meshRoutes[q][1] \ {deviceId})]
      /\ activeConnections' = Max(0, Len(remaining) - 1)

\* the steps of the call linkCalls[k] that are left: "notifying" waits for
\* startNotifications, "announcing" for the write of the mesh announcement;
\* "connected" has emitted peer-connected, "caught" ran the catch block
LinkAt(k, stage) == k \in 1..Len(linkCalls) /\ linkCalls[k].stage = stage

\* connectToDevice up to `await characteristic.startNotifications()`: the
\* server, the service and the characteristic were obtained, the three Maps
\* hold the device
ConnectToDevice(p) ==
  /\ Len(linkCalls) < MaxLinks
  /\ p \notin ConnectedIds
  /\ \A k \in 1..Len(linkCalls) :
       linkCalls[k].device = p => linkCalls[k].stage \in {"connected", "caught"}
  /\ connects' = connects + 1
  /\ connections' =
       Append(connections, [id |-> p, stamp |-> NextStamp, hasChar |-> TRUE])
  /\ meshRoutes' = [meshRoutes EXCEPT ![p] = Some({})]
  /\ linkCalls' = Append(linkCalls, [device |-> p, stage |-> "notifying",
                             established |-> FALSE, listening |-> FALSE,
                             dropped |-> FALSE, threw |-> "nothing"])
  /\ UNCHANGED <<now, codecVars, channelVars, meshVars, scanVars, bluetoothVars,
                 graphVars, cryptoVars, lifeVars, disconnects,
                 processedMessages, timers, timerSeq, calls, attempts, events,
                 arrivals, added>>

\* the catch block of connectToDevice
ConnectionError(k, error) ==
  /\ handleDisconnection(linkCalls[k].device)
  /\ linkCalls' = [linkCalls EXCEPT ![k].stage = "caught", ![k].threw = error,
                            ![k].established = @ \/ error # "startNotifications",
                            ![k].listening = @ \/ error # "startNotifications"]

\* startNotifications settles; once it resolved, the listener of
\* gattserverdisconnected is added and sendMeshAnnouncement writes to the
\* characteristic
NotificationsSettle(k, ok) ==
  /\ LinkAt(k, "notifying")
  /\ IF ok
     THEN /\ linkCalls' = [linkCalls EXCEPT ![k].stage = "announcing",
                                    ![k].established = TRUE,
                                    ![k].listening = TRUE]
          /\ UNCHANGED <<connections, meshRoutes, activeConnections>>
     ELSE ConnectionError(k, "startNotifications")
  /\ UNCHANGED <<now, codecVars, channelVars, meshVars, bluetoothVars, graphVars,
                 cryptoVars, lifeVars, connects, disconnects, processedMessages,
                 timers, timerSeq, calls, attempts, events, arrivals, added,
                 scanHistory, currentMode, scanEnv, lastConnectionTime,
                 optimizationInterval, scanStep, scanOps>>

\* the write of the announcement settles.  After a resolved write the
\* latency interval is started, the coordinator and the optimizer are given
\* the table, and recordConnectionSuccess is called on the optimizer; what
\* follows that call runs if it returns.
AnnouncementSettles(k, ok) ==
  /\ LinkAt(k, "announcing")
  /\ IF ~ok THEN ConnectionError(k, "writeValue")
     ELSE IF IsNotAFunction("recordConnectionSuccess")
     THEN ConnectionError(k, "recordConnectionSuccess")
     ELSE /\ linkCalls' = [linkCalls EXCEPT ![k].stage = "connected"]
          /\ activeConnections' = Len(connections)
          /\ UNCHANGED <<connections, meshRoutes>>
  /\ UNCHANGED <<now, codecVars, channelVars, meshVars, bluetoothVars, graphVars,
                 cryptoVars, lifeVars, connects, disconnects, processedMessages,
                 timers, timerSeq, calls, attempts, events, arrivals, added,
                 scanHistory, currentMode, scanEnv, lastConnectionTime,
                 optimizationInterval, scanStep, scanOps>>

\* the device of linkCalls[k] fires gattserverdisconnected: every listener added
\* for it runs handleDisconnection
GattServerDisconnected(k) ==
  /\ k \in 1..Len(linkCalls)
  /\ linkCalls[k].listening
  /\ ~linkCalls[k].dropped
  /\ disconnects < MaxDisconnects
  /\ disconnects' = disconnects + 1
  /\ handleDisconnection(linkCalls[k].device)
  /\ linkCalls' = [j \in 1..Len(linkCalls) |->
                 IF linkCalls[j].device = linkCalls[k].device /\ linkCalls[j].listening
                 THEN [linkCalls[j] EXCEPT !.dropped = TRUE] ELSE linkCalls[j]]
  /\ UNCHANGED <<now, codecVars, channelVars, meshVars, bluetoothVars, graphVars,
                 cryptoVars, lifeVars, connects, processedMessages,
                 timers, timerSeq, calls, attempts, events, arrivals, added,
                 scanHistory, currentMode, scanEnv, lastConnectionTime,
                 optimizationInterval, scanStep, scanOps>>

NextConnect ==
  \/ \E p \in LinkPeers : ConnectToDevice(p)
  \/ \E k \in 1..MaxLinks : \E ok \in BOOLEAN : NotificationsSettle(k, ok)
  \/ \E k \in 1..MaxLinks : \E ok \in BOOLEAN : AnnouncementSettles(k, ok)
  \/ \E k \in 1..MaxLinks : GattServerDisconnected(k)

Init ==
  /\ now = 0
  /\ CodecIdle
  /\ RelayIdle
  /\ ChannelIdle
  /\ MeshIdle
  /\ ScanIdle
  /\ BluetoothIdle
  /\ GraphIdle
  /\ CryptoIdle
  /\ LifeIdle
  /\ LinkIdle

\* connections coming and going
Topology ==
  \/ \E p \in RelayPeers \ MockPeers : Connect(p)
  \/ \E p \in MockPeers : ConnectMock(p)
  \/ \E p \in RelayPeers : HandleDisconnection(p)

\* the service handling what its peers send
NextInbound ==
  \/ Topology
  \/ \E p \in RelayPeers : \E data \in InboundPackets(now) :
       HandleIncomingMessage(p, data)
  \/ RelayTimerFires
  \/ DedupTimerFires
  \/ Tick

SpecInbound == Init /\ [][NextInbound]_vars

\* ------------------------------------------------------------------------
\* BluetoothService.disconnect
\* ------------------------------------------------------------------------

\* how far the clock moves while nothing runs, and up to when
WaitStep == 1000
MaxWait == 1000

\* disconnect(): the scan is stopped, the optimizer's interval cleared, the
\* coordinator destroyed, and the Maps and the dedup set are cleared; the
\* setTimeout callbacks that were scheduled stay scheduled
Disconnect ==
  /\ ~destroyCalled
  /\ stopScanning
  /\ optimizationInterval' = 0
  /\ destroyCalled' = TRUE
  /\ heartbeatInterval' = cleared(heartbeatInterval)
  /\ syncInterval' = cleared(syncInterval)
  /\ broadcastChannel' = "closed"
  /\ lifeNodes' = <<>>
  /\ connections' = <<>>
  /\ meshRoutes' = [p \in DeviceIds |-> Undefined]
  /\ processedMessages' = {}
  /\ UNCHANGED <<now, codecVars, channelVars, meshVars, graphVars, cryptoVars,
                 linkVars, connects, disconnects, timers, timerSeq, calls,
                 attempts, events, arrivals, added, scanHistory, currentMode,
                 scanEnv, activeConnections, lastConnectionTime, scanStep,
                 scanOps, isInitialized, initializing, intervalSeq, starts,
                 microtasks, stops, scans, periods, lifePhase, serviceWorker,
                 lifeSent, beats, lifeEmitted, workerInbox, lifeOps, syncs,
                 partitionFound>>

\* nothing is due and the clock moves on
Wait ==
  /\ now + WaitStep <= MaxWait
  /\ \A t \in timers : t.due >= now + WaitStep
  /\ now' = now + WaitStep
  /\ UNCHANGED <<codecVars, relayVars, linkVars, lifeVars, cryptoVars, graphVars,
                 bluetoothVars, channelVars, meshVars, scanVars>>

\* the service receiving and relaying, with a disconnect() in between
NextDedup ==
  \/ Topology
  \/ \E p \in RelayPeers : \E data \in InboundPackets(now) :
       HandleIncomingMessage(p, data)
  \/ \E in \in CallInputs : RelayMessageCall(in[1], in[2])
  \/ RelayTimerFires
  \/ DedupTimerFires
  \/ Disconnect
  \/ Wait
  \/ Tick

SpecDedup == Init /\ [][NextDedup]_vars

\* the event loop runs a callback that is due, and the clock moves on when
\* none is
FairSpecInbound ==
  /\ SpecInbound
  /\ WF_vars(RelayTimerFires)
  /\ WF_vars(DedupTimerFires)
  /\ WF_vars(Tick)

\* the service relaying what its caller hands it
NextRelay ==
  \/ Topology
  \/ \E in \in CallInputs : RelayMessageCall(in[1], in[2])
  \/ DedupTimerFires
  \/ GapTimerFires
  \/ \E c \in 1..Len(calls) : \E ok \in BOOLEAN : WriteSettles(c, ok)
  \/ Tick

SpecRelay == Init /\ [][NextRelay]_vars


\* the application broadcasting over the connections it has
NextBroadcast ==
  \/ Topology
  \/ \E message \in BroadcastInputs : \E rtc \in RtcSends :
       BroadcastMessage(message, rtc)
  \/ GapTimerFires
  \/ \E c \in 1..Len(calls) : \E ok \in BOOLEAN : WriteSettles(c, ok)
  \/ Tick

SpecBroadcast == Init /\ [][NextBroadcast]_vars

NotDecoded == [kind |-> "none", msg |-> NoMessage]

InitCodec ==
  /\ now = StartTime
  /\ RelayIdle
  /\ ChannelIdle
  /\ MeshIdle
  /\ ScanIdle
  /\ BluetoothIdle
  /\ GraphIdle
  /\ CryptoIdle
  /\ LifeIdle
  /\ LinkIdle
  /\ input \in CodecInputs
  /\ packets = <<>>
  /\ decoded = NotDecoded
  /\ phase = "idle"

\* MessageProtocol.encode(message)
Encode ==
  /\ phase = "idle"
  /\ packets' = encode(MessageOf(input), now)
  /\ phase' = "encoded"
  /\ UNCHANGED <<now, input, decoded, relayVars, linkVars, lifeVars, cryptoVars, graphVars, bluetoothVars, channelVars, meshVars, scanVars>>

\* time passes between the sender's encode and the receiver's decode
CodecTick ==
  /\ phase = "encoded"
  /\ now - StartTime < MaxTicks
  /\ \E d \in {1, TS_MODULUS - 1} : now' = now + d
  /\ UNCHANGED <<codecVars, relayVars, linkVars, lifeVars, cryptoVars, graphVars, bluetoothVars, channelVars, meshVars, scanVars>>

\* MessageProtocol.decode(packets[i])
Decode ==
  /\ phase = "encoded"
  /\ \E i \in 1..Len(packets) : decoded' = decode(packets[i], now)
  /\ phase' = "decoded"
  /\ UNCHANGED <<now, input, packets, relayVars, linkVars, lifeVars, cryptoVars, graphVars, bluetoothVars, channelVars, meshVars, scanVars>>

\* the public keys, as base64 text, of two devices
CodecPublicKeys == {<<65, 61>>, <<66, 67, 61>>}

\* MessageProtocol.createKeyExchange(publicKey, boxPublicKey)
CreateKeyExchange(publicKey, boxPublicKey) ==
  /\ phase = "idle"
  /\ packets' = <<createKeyExchange(publicKey, boxPublicKey, now)>>
  /\ phase' = "keyExchange"
  /\ UNCHANGED <<now, input, decoded, relayVars, linkVars, lifeVars, cryptoVars, graphVars, bluetoothVars, channelVars, meshVars, scanVars>>

NextCodec ==
  \/ Encode
  \/ CodecTick
  \/ Decode
  \/ \E publicKey, boxPublicKey \in CodecPublicKeys :
       CreateKeyExchange(publicKey, boxPublicKey)

SpecCodec == InitCodec /\ [][NextCodec]_vars

NextChannel ==
  \/ \E n \in ChannelNames : DiscoverChannel(n)
  \/ \E n \in ChannelNames : \E password \in Passwords : JoinChannel(n, password)
  \/ \E n \in ChannelNames : LeaveChannel(n)
  \/ DiscoveryTimerFires
  \/ AuthTimerFires
  \/ ChannelTick

SpecChannel == Init /\ [][NextChannel]_vars

\* the calls of startScanning and stopScanning around the initialisation
NextScanning ==
  \/ StartScanning
  \/ InitializeCompletes
  \/ InitializeFails
  \/ \E k \in 1..MaxStarts : WaitTimesOut(k)
  \/ StartResumes
  \/ StopScanning
  \/ \E mode \in ModeNames : ApplyScanMode(SCAN_MODES[mode])
  \/ \E handle \in 1..MaxIntervals : DiscoveryScanFires(handle)

SpecScanning == Init /\ [][NextScanning]_vars

\* a coordinator from its constructor on, and its service worker
NextLife ==
  \/ \E worker \in {"active", "null"} : RegistrationSettles(worker)
  \/ HeartbeatTimer
  \/ SyncTimer
  \/ DestroyCoordinator
  \/ \E message \in LifeMessages : ChannelMessage(message)
  \/ \E routes \in WorkerRoutes : PerformMeshSync(routes)
  \/ \E message \in LifeMessages : WorkerForwards(message)
  \/ ClientReceives

SpecLife == Init /\ [][NextLife]_vars

\* the registration settles, and the client's event loop handles the
\* messages it was sent
FairSpecLife ==
  /\ SpecLife
  /\ WF_vars(\E worker \in {"active", "null"} : RegistrationSettles(worker))
  /\ WF_vars(ClientReceives)

\* the calls of the crypto service
NextCrypto ==
  \/ \E message \in Texts : \E channelName \in CryptoChannels :
       \E password \in CryptoPasswords : \E nonce \in Nonces :
         EncryptForChannel(message, channelName, password, nonce)
  \/ \E channelName \in CryptoChannels : \E password \in CryptoPasswords :
       DecryptFromChannel(channelName, password)
  \/ ScryptSettles
  \/ \E peer \in PeerPublicKeys : PerformKeyExchange(peer)
  \/ WipeKeys

SpecCrypto == Init /\ [][NextCrypto]_vars

\* a node table of a coordinator, or the nodes and routes of the worker
InitGraph ==
  /\ now = 0
  /\ CodecIdle
  /\ RelayIdle
  /\ ChannelIdle
  /\ MeshIdle
  /\ ScanIdle
  /\ BluetoothIdle
  /\ CryptoIdle
  /\ LifeIdle
  /\ LinkIdle
  /\ \/ graphNodes \in Tables /\ graphRoutes = <<>>
     \/ graphNodes \in NodeLists /\ graphRoutes \in RouteLists
  /\ graphAnswer = NoAnswer

NextGraph ==
  \/ DetectNetworkPartitions
  \/ IdentifyBridgeNodes
  \/ IsGraphDisconnected
  \/ \E targetId \in GraphIds : FindOptimalPath(targetId)

SpecGraph == InitGraph /\ [][NextGraph]_vars

MeshTypes == {"HEARTBEAT", "SYNC_RESPONSE"}

\* the optimizer with some history, in some environment
InitScan ==
  /\ now = ScanStart
  /\ CodecIdle
  /\ RelayIdle
  /\ ChannelIdle
  /\ MeshIdle
  /\ BluetoothIdle
  /\ GraphIdle
  /\ CryptoIdle
  /\ LifeIdle
  /\ LinkIdle
  /\ scanHistory \in ScanHistories
  /\ currentMode = SCAN_MODES.balanced
  /\ scanEnv \in ScanEnvs
  /\ activeConnections = 0
  /\ lastConnectionTime = 0
  /\ optimizationInterval = 0
  /\ scanStep = [cycle |-> 0, strategy |-> NoStrategy]
  /\ scanOps = 0

NextScan ==
  \/ StartOptimization
  \/ \E result \in ScanResults : RecordScanStats(result)
  \/ \E mode \in ModeNames : SetScanMode(mode)
  \/ ConnectionEstablished
  \/ ConnectionLost
  \/ OptimizeFires
  \/ ScanTick

SpecScan == InitScan /\ [][NextScan]_vars

\* startScanning and stopScanning calls while the mode changes
MaxModeStarts == 1
MaxModeStops == 1

\* the optimizer of a BluetoothService at noon, the page visible, on battery
InitScanMode ==
  /\ InitScan
  /\ scanEnv.hour = 12
  /\ ~scanEnv.hidden
  /\ ~scanEnv.charging

\* scanning while the optimizer changes the mode
NextScanMode ==
  \/ InitializeCompletes
  \/ StartOptimization
  \/ Len(starts) < MaxModeStarts /\ StartScanning
  \/ StartResumes
  \/ stops < MaxModeStops /\ StopScanning
  \/ \E handle \in 1..MaxIntervals : DiscoveryScanFires(handle)
  \/ \E mode \in ModeNames : SetScanMode(mode)
  \/ OptimizeFires
  \/ ScanTick

SpecScanMode == InitScanMode /\ [][NextScanMode]_vars

\* the environment may take a step more
MayAct == meshOps < MaxMeshOps

NextMesh ==
  \/ \E i \in Coordinators : HeartbeatFires(i)
  \/ \E i \in Coordinators : SyncFires(i)
  \/ \E i \in Coordinators : Receive(i)
  \/ \E i \in Coordinators : \E peers \in PeerLists : MayAct /\ UpdatePeers(i, peers)
  \/ \E i \in Coordinators : MayAct /\ Destroy(i)
  \/ MayAct /\ OtherHeartbeat
  \/ MayAct /\ OtherLeaves
  \/ MayAct /\ RemoteSyncResponse
  \/ \E type \in MeshTypes : MayAct /\ ForeignMessage(type)
  \/ MeshTick(MaxMeshTime)

SpecMesh == Init /\ [][NextMesh]_vars

\* the environment may take a step more, which it does between the rounds of
\* callbacks and messages
MayActBetween == Quiet /\ meshOps < MaxSilentOps

\* the coordinators over a longer time
NextSilent ==
  \/ \E i \in Coordinators : HeartbeatFires(i)
  \/ \E i \in Coordinators : SyncFires(i)
  \/ \E i \in Coordinators : Receive(i)
  \/ \E i \in Coordinators :
       MayActBetween /\ UpdatePeers(i, [k \in 1..ManyPeers |-> k])
  \/ MayActBetween /\ OtherHeartbeat
  \/ MayActBetween /\ OtherLeaves
  \/ MeshTick(MaxSilentTime)

SpecSilent == Init /\ [][NextSilent]_vars

\* the event loop of a running tab runs the callbacks that are due and
\* handles the messages it was sent, and the clock moves on
FairSpecSilent ==
  /\ SpecSilent
  /\ \A i \in Coordinators : WF_vars(HeartbeatFires(i))
  /\ \A i \in Coordinators : WF_vars(SyncFires(i))
  /\ \A i \in Coordinators : WF_vars(Receive(i))
  /\ WF_vars(MeshTick(MaxSilentTime))


\* ------------------------------------------------------------------------
\* Codec claims
\* ------------------------------------------------------------------------

\* the bytes encode hands to createPacket or fragmentMessage
SerializedPayload(m) == compress(encodePayload(m))

\* the payload bytes carried by the packets before the k-th
RECURSIVE PayloadBytesBefore(_, _)
PayloadBytesBefore(pkts, k) ==
  IF k = 1 THEN 0
  ELSE PayloadBytesBefore(pkts, k - 1) + Len(pkts[k - 1]) - HEADER_SIZE

\* the payloads of pkts, concatenated in order, are exactly the bytes of payload
ReassemblesTo(pkts, payload) ==
  /\ PayloadBytesBefore(pkts, Len(pkts) + 1) = Len(payload)
  /\ \A k \in 1..Len(pkts) :
       LET before == PayloadBytesBefore(pkts, k)
       IN  PacketPayload(pkts[k])
             = SubSeq(payload, before + 1, before + Len(pkts[k]) - HEADER_SIZE)

\* C6: for every message whose serialized payload fits in one packet,
\* decoding the packet encode returned yields a message with the same id,
\* sender, channel, text or encrypted payload, and signature.
C6_RoundTrip ==
  (phase = "decoded" /\ Len(packets) = 1) =>
    LET message == MessageOf(input)
    IN  /\ decoded.kind = "message"
        /\ decoded.msg.id = message.id
        /\ decoded.msg.sender = message.sender
        /\ decoded.msg.channel = message.channel
        /\ decoded.msg.text = message.text
        /\ decoded.msg.encrypted = message.encrypted
        /\ decoded.msg.signature = message.signature

\* C7: for every message whose serialized payload exceeds one packet's
\* capacity, every fragment records the number of fragments returned, the
\* recorded indexes run 0..count-1 in order, and the fragment payloads
\* concatenated in index order are the serialized payload.
C7_Fragmentation ==
  (phase = "encoded" /\ Len(packets) > 1) =>
    /\ \A k \in 1..Len(packets) :
         /\ PacketFragmentCount(packets[k]) = Len(packets)
         /\ PacketFragmentIndex(packets[k]) = k - 1
    /\ ReassemblesTo(packets, SerializedPayload(MessageOf(input)))

\* C8: every packet returned by encode is at most 512 bytes long, header
\* included, whatever the size of the message.
C8_PacketWithinMtu ==
  \A k \in 1..Len(packets) : Len(packets[k]) <= MAX_PACKET_SIZE

\* a fragmented message whose first fragment fills the whole packet, and
\* whose last one does not
C8_Witness ==
  /\ phase = "encoded"
  /\ Len(packets) > 1
  /\ Len(packets[1]) = MAX_PACKET_SIZE
  /\ Len(packets[Len(packets)]) < MAX_PACKET_SIZE

\* ------------------------------------------------------------------------
\* Relay claims
\* ------------------------------------------------------------------------

AttemptsOf(c) == 1..Len(attempts[c])

\* the arrivals that decoded to a message with this id
ArrivalsOf(id) ==
  {a \in 1..Len(arrivals) :
     arrivals[a].id = id /\ arrivals[a].kind \in {"delivered", "duplicate"}}

\* A, connected to B and C, took from B a message with TTL 3 it had not seen
ReceivedFromB ==
  \E a \in 1..Len(arrivals) :
    /\ arrivals[a].from = PeerB
    /\ arrivals[a].kind = "delivered"
    /\ arrivals[a].ttl = 3
    /\ PeerC \in arrivals[a].peers

\* a packet of one of those messages went to C with TTL 2, and none to B
RelayedToC ==
  \E a \in 1..Len(arrivals) :
    /\ arrivals[a].from = PeerB /\ arrivals[a].kind = "delivered"
    /\ arrivals[a].ttl = 3
    /\ \E c \in 1..Len(calls) : \E k \in AttemptsOf(c) :
         /\ calls[c].id = arrivals[a].id
         /\ attempts[c][k].to = PeerC
         /\ attempts[c][k].state = "written"
         /\ PacketTtl(attempts[c][k].data) = 2
    /\ \A c \in 1..Len(calls) : \A k \in AttemptsOf(c) :
         calls[c].id = arrivals[a].id => attempts[c][k].to # PeerB

\* C1: once A, connected to B and C, has received from B an unseen message
\* with TTL 3, it eventually transmits the message to C with TTL 2 and never
\* to B (unless a peer disconnects in between).
C1_EventuallyRelayed == ReceivedFromB ~> (RelayedToC \/ disconnects > 0)

\* C2: every packet relayMessage transmits carries a TTL one lower than the
\* TTL of the message relayMessage was given, and nothing is transmitted for
\* a message whose TTL is 0 or less.
C2_TtlDecremented ==
  \A c \in 1..Len(calls) : \A k \in AttemptsOf(c) :
    /\ calls[c].ttl > 0
    /\ PacketTtl(attempts[c][k].data) = calls[c].ttl - 1

C5_EveryPeerAttempted ==
  \A c \in 1..Len(calls) :
    (calls[c].status = "relayed" /\ calls[c].wait = "none") =>
      /\ \A i \in 1..Len(connections) :
           ( /\ connections[i].stamp \in calls[c].peers
             /\ connections[i].id # calls[c].exclude )
           => \E k \in AttemptsOf(c) : attempts[c][k].to = connections[i].id
      /\ \A k \in AttemptsOf(c) : attempts[c][k].to # calls[c].exclude

\* a returned call whose write to one peer failed and that went on to a
\* later peer, with the excluded peer connected
C5_Witness ==
  \E c \in 1..Len(calls) :
    /\ calls[c].status = "relayed" /\ calls[c].wait = "none"
    /\ calls[c].exclude \in ConnectedIds
    /\ \E k1, k2 \in AttemptsOf(c) :
         /\ k1 < k2
         /\ attempts[c][k1].state = "failed"
         /\ attempts[c][k2].to # attempts[c][k1].to

\* C9: a step that handles an inbound packet whose first byte is not the
\* supported protocol version emits no message-received event, adds nothing
\* to the dedup set and schedules no timer.
C9_BadVersionDropped ==
  [][ ( /\ Len(arrivals') = Len(arrivals) + 1
        /\ arrivals'[Len(arrivals')].version # VERSION )
      => ( /\ events' = events
           /\ processedMessages' = processedMessages
           /\ timers' = timers
           /\ calls' = calls ) ]_vars

\* a packet of another version arrived over one of two connections, carrying
\* an id that was not in the dedup set, and decode reported an error
C9_Witness ==
  \E a \in 1..Len(arrivals) :
    /\ arrivals[a].version # VERSION
    /\ arrivals[a].kind = "error"
    /\ Cardinality(arrivals[a].peers) > 1
    /\ processedMessages = {}

\* ------------------------------------------------------------------------
\* Channel claims
\* ------------------------------------------------------------------------

LifecycleSteps ==
  {<<"discovering", "joining">>, <<"joining", "authenticating">>,
   <<"authenticating", "authenticated">>, <<"authenticating", "failed">>}

\* C10: every assignment to a channel's state is the entry into discovering
\* by discoverChannel, the removal by leaveChannel, or one step of
\* discovering -> joining -> authenticating -> authenticated | failed: no
\* state is skipped and none is gone back to.
C10_LifecycleOrder ==
  \A k \in 1..Len(channelChanges) :
    LET change == channelChanges[k]
    IN  \/ change.by = "discoverChannel" /\ change.to = "discovering"
        \/ change.by = "leaveChannel" /\ change.to = "absent"
        \/ /\ change.by \notin {"discoverChannel", "leaveChannel"}
           /\ <<change.from, change.to>> \in LifecycleSteps

\* the assignments to the state of the channel of call k made before the call
ChangesBefore(k) ==
  {j \in 1..channelCalls[k].seen :
     channelChanges[j].channel = normalizeChannelName(channelCalls[k].name)}

\* call k is a joinChannel made when the last thing that happened to its
\* channel was the callback of the discovery timeout
JoinAfterDiscovery(k) ==
  /\ channelCalls[k].op = "joinChannel"
  /\ ChangesBefore(k) # {}
  /\ LET last == CHOOSE j \in ChangesBefore(k) : \A i \in ChangesBefore(k) : i <= j
     IN  /\ channelChanges[last].timer # 0
         /\ channelChanges[last].by \in {"handleDiscoveryComplete",
                                         "proceedToAuthentication"}

\* C11: a joinChannel(name, password) made after the discovery step of
\* discoverChannel(name) has completed succeeds: it ends without an error and
\* moves the channel from joining to authenticating.
C11_JoinAfterDiscovery ==
  \A k \in 1..Len(channelCalls) :
    JoinAfterDiscovery(k) =>
      /\ channelCalls[k].error = NoError
      /\ Len(channelChanges) > channelCalls[k].seen
      /\ LET change == channelChanges[channelCalls[k].seen + 1]
         IN  /\ change.channel = normalizeChannelName(channelCalls[k].name)
             /\ change.from = "joining"
             /\ change.to = "authenticating"
             /\ change.timer = 0

\* C12: a joinChannel call that ends with an error leaves the channel table
\* as it was before the call and emits no event.
C12_FailedJoinChangesNothing ==
  [][(/\ Len(channelCalls') = Len(channelCalls) + 1
      /\ channelCalls'[Len(channelCalls')].op = "joinChannel"
      /\ channelCalls'[Len(channelCalls')].error # NoError)
     => (channels' = channels /\ channelEvents' = channelEvents)]_vars

\* C13: after a leaveChannel(name) that completed, no state is held for the
\* channel, and no timeout started before the leave assigns the state of
\* that channel name afterwards (each such assignment emits the
\* channel-state-changed event, and the one to authenticated channel-joined).
C13_NoTimerActsAfterLeave ==
  \A k \in 1..Len(channelCalls) :
    (channelCalls[k].op = "leaveChannel" /\ channelCalls[k].error = NoError) =>
      /\ channelChanges[channelCalls[k].seen + 1].to = "absent"
      /\ \A j \in (channelCalls[k].seen + 2)..Len(channelChanges) :
           (/\ channelChanges[j].channel = normalizeChannelName(channelCalls[k].name)
            /\ channelChanges[j].timer # 0)
           => channelChanges[j].timer > channelCalls[k].started

\* ------------------------------------------------------------------------
\* Mesh coordinator claims
\* ------------------------------------------------------------------------

\* C14: the node table of a coordinator holds at most MAX_NODES entries,
\* whatever heartbeats, sync responses and registrations it has handled.
C14_TableBounded ==
  \A i \in Coordinators : Len(nodes[i]) <= MAX_NODES

\* C15: once a tab is gone and silent for longer than NODE_TIMEOUT, every
\* running coordinator removes it, and a coordinator that does not hold the
\* tab that is gone does not take it into its table again, also while the
\* running coordinators exchange sync requests and responses.
C15_SilentNodeRemoved ==
  /\ <>[](status[OtherId] = "destroyed" =>
            \A i \in Coordinators : \A k \in 1..Len(nodes[i]) :
              nodes[i][k].id = OtherId =>
                now - nodes[i][k].lastHeartbeat <= NODE_TIMEOUT)
  /\ [][\A i \in Coordinators :
          (status[OtherId] = "destroyed" /\ ~HasNode(nodes[i], OtherId)) =>
            ~HasNode(nodes'[i], OtherId)]_vars

\* C16: in no step does the routing version a coordinator's table records
\* for a node id become less than it was.
C16_RoutingVersionGrows ==
  [][\A i \in Coordinators : \A k \in 1..Len(nodes[i]) :
       HasNode(nodes'[i], nodes[i][k].id) =>
         GetNode(nodes'[i], nodes[i][k].id).routingVersion
           >= nodes[i][k].routingVersion]_vars

\* the step is coordinator i handling the first message of its inbox
Receives(i) ==
  /\ status'[i] = "running"
  /\ inbox[i] # <<>>
  /\ Len(inbox'[i]) = Len(inbox[i]) - 1

\* C17: a coordination message of another protocol version is discarded:
\* handling it leaves the node table as it is, sends no message and emits no
\* event.
C17_OtherVersionDiscarded ==
  [][\A i \in Coordinators :
       (Receives(i) /\ Head(inbox[i]).version # PROTOCOL_VERSION) =>
         /\ nodes'[i] = nodes[i]
         /\ meshStep'.sent = <<>>
         /\ meshStep'.emitted = <<>>]_vars

\* a coordinator that knows a tab of the same build has handled a heartbeat
\* of the tab of the other build
C17_Witness ==
  /\ meshStep.op = "message"
  /\ meshStep.handled[1].version # PROTOCOL_VERSION
  /\ meshStep.handled[1].type = "HEARTBEAT"
  /\ Len(nodes[meshStep.by]) > 1

\* the step is the callback of syncInterval of coordinator i
SyncTick(i) == syncDue'[i] # syncDue[i]

RequestSent(step) ==
  \E k \in 1..Len(step.sent) : step.sent[k].type = "SYNC_REQUEST"

\* another node of the table lists more known peers than the own node does
OtherKnowsMore(table, self) ==
  /\ HasNode(table, self)
  /\ \E k \in 1..Len(table) :
       /\ table[k].id # self
       /\ Len(table[k].knownPeers) > Len(GetNode(table, self).knownPeers)

OptimizationCycle == scanStep'.cycle = scanStep.cycle + 1

\* the places in Strategies of the strategies whose predicate holds
Holding ==
  {k \in 1..Len(Strategies) :
     shouldApply(Strategies[k], scanHistory, getCurrentContext)}

\* C19: in an optimization cycle the strategies are examined in their order
\* and the examination stops at the first whose predicate holds: the mode
\* after the cycle is the one that strategy gives, and no later strategy is
\* applied.
C19_FirstHoldingStrategyOnly ==
  [][(OptimizationCycle /\ Holding # {}) =>
       /\ currentMode' = apply(Strategies[SetMin(Holding)], currentMode)
       /\ scanStep'.strategy \in {Strategies[SetMin(Holding)], NoStrategy}]_vars

\* C20: in a cycle in which the last five scans found less than one device
\* on average and the last connection is more than five minutes ago (and
\* the battery-conservation strategy, which comes first, does not hold), the
\* low-activity strategy is applied, the scan interval is greater than
\* before and the scan duration is at least MIN_DURATION.
C20_LowActivitySlowsScanning ==
  [][(/\ OptimizationCycle
      /\ Holding # {}
      /\ Strategies[SetMin(Holding)] = "low-activity")
     => /\ scanStep'.strategy = "low-activity"
        /\ currentMode'.interval > currentMode.interval
        /\ currentMode'.duration >= MIN_DURATION]_vars

\* ------------------------------------------------------------------------
\* Scanning lifecycle claims
\* ------------------------------------------------------------------------

\* a startScanning call that ran to its end
Settled(call) == call.state \in {"returned", "started", "rejected"}

\* stopScanning was called after every startScanning call, and each of
\* those calls has settled
StoppedAndSettled ==
  /\ stops > 0
  /\ \A k \in DOMAIN starts :
       Settled(starts[k]) /\ starts[k].stopsBefore < stops

\* C21: once stopScanning has been called and every startScanning call
\* issued before it has settled, no discovery-scan interval is active
C21_NoScanTimerAfterStop == StoppedAndSettled => intervals = {}

\* ------------------------------------------------------------------------
\* Graph claims
\* ------------------------------------------------------------------------

IdsOf(list) == {list[k].id : k \in 1..Len(list)}

\* what is reached from S in at most n steps along the pairs of edges
RECURSIVE Within(_, _, _)
Within(S, edges, n) ==
  IF n = 0 THEN S
  ELSE Within(S \cup {e[2] : e \in {d \in edges : d[1] \in S}}, edges, n - 1)

\* both directions of the pairs whose ends are among ids
Undirected(pairs, ids) ==
  {e \in pairs \cup {<<d[2], d[1]>> : d \in pairs} : e[1] \in ids /\ e[2] \in ids}

RoutePairs(routes) ==
  {<<routes[k].source, routes[k].destination>> : k \in 1..Len(routes)}

\* the connected components of the undirected graph of nodes and routes
Components(list, routes) ==
  {Within({id}, Undirected(RoutePairs(routes), IdsOf(list)), Len(list)) :
     id \in IdsOf(list)}

\* C22: detectNetworkPartitions returns the connected components of the
\* undirected graph of the nodes and routes, each node in exactly one
C22_PartitionsAreComponents ==
  graphAnswer.op = "partitions" =>
    LET parts == graphAnswer.value
        ids(k) == IdsOf(parts[k])
    IN  /\ {ids(k) : k \in 1..Len(parts)} = Components(graphNodes, graphRoutes)
        /\ \A k \in 1..Len(parts) : Len(parts[k]) = Cardinality(ids(k))
        /\ \A j, k \in 1..Len(parts) : j # k => ids(j) \cap ids(k) = {}
        /\ UNION {ids(k) : k \in 1..Len(parts)} = IdsOf(graphNodes)

\* two disjoint cliques of two nodes each were given and two components
\* came back
C22_Witness ==
  /\ graphAnswer.op = "partitions"
  /\ Len(graphNodes) = GraphSize
  /\ graphRoutes = <<AllRoutes[1], AllRoutes[6]>>
  /\ Len(graphAnswer.value) = 2

\* the pairs of the known-peer linkCalls of a node table
PeerLinks(table) ==
  UNION {{<<table[k].id, table[k].knownPeers[j]>> :
            j \in 1..Len(table[k].knownPeers)} : k \in 1..Len(table)}

\* any two of the nodes ids are joined by linkCalls between nodes of ids
IsConnected(ids, pairs) ==
  \A a \in ids : Within({a}, Undirected(pairs, ids), Cardinality(ids)) = ids

\* the topology is connected and is not once the node id and its linkCalls are
\* taken away
IsCutNode(table, id) ==
  /\ IsConnected(IdsOf(table), PeerLinks(table))
  /\ ~IsConnected(IdsOf(table) \ {id}, PeerLinks(table))

\* C23: identifyBridgeNodes reports a node exactly when the topology is
\* connected with it and disconnected without it
C23_BridgesAreCutNodes ==
  graphAnswer.op = "bridges" =>
    \A id \in IdsOf(graphNodes) :
      (\E k \in 1..Len(graphAnswer.value) : graphAnswer.value[k] = id)
        <=> IsCutNode(graphNodes, id)

\* the target is reached from the local node along known-peer linkCalls
IsReachable(table, targetId) ==
  targetId \in Within({LocalId}, PeerLinks(table), GraphSize)

\* path leads from the local node to the target along known-peer linkCalls, and
\* no walk of fewer hops does
IsShortestPath(table, targetId, path) ==
  /\ path[1] = LocalId
  /\ path[Len(path)] = targetId
  /\ \A k \in 1..(Len(path) - 1) : <<path[k], path[k + 1]>> \in PeerLinks(table)
  /\ Len(path) > 1 =>
       targetId \notin Within({LocalId}, PeerLinks(table), Len(path) - 2)

\* C24: findOptimalPath returns a path of the least number of hops from the
\* local node to the target along known-peer linkCalls, and the empty path
\* exactly when the target is not reachable
C24_PathIsShortest ==
  graphAnswer.op = "path" =>
    /\ graphAnswer.value = <<>> <=> ~IsReachable(graphNodes, graphAnswer.target)
    /\ graphAnswer.value # <<>> =>
         IsShortestPath(graphNodes, graphAnswer.target, graphAnswer.value)

\* a path of two hops came back for a target that a walk of three hops
\* reaches as well
C24_Witness ==
  /\ graphAnswer.op = "path"
  /\ Len(graphAnswer.value) = 3
  /\ \E mid \in GraphIds \ {graphAnswer.value[2]} :
       /\ <<LocalId, mid>> \in PeerLinks(graphNodes)
       /\ <<mid, graphAnswer.value[2]>> \in PeerLinks(graphNodes)

\* ------------------------------------------------------------------------
\* Crypto claims
\* ------------------------------------------------------------------------

\* decryptFromChannel has ended, for the channel the text was encrypted for
OpenedForSameChannel ==
  /\ opened.outcome # "none"
  /\ opened.channelName = opened.of.channelName

\* C25: decrypting what encryptForChannel returned, for the same channel,
\* returns the text under the same password and fails under another one
C25_ChannelRoundTrip ==
  OpenedForSameChannel =>
    IF opened.password = opened.of.password
      THEN opened.outcome = "value" /\ opened.value = opened.of.message
      ELSE opened.outcome = "error"

\* the entries of a cache that a call made before the last wipeKeys set
HeldFromBeforeWipe(map) ==
  {k \in 1..Len(map) : map[k].by < wipedAt.seq}

\* C26: after wipeKeys both key pairs are newly generated ones, and the
\* caches hold no channel key and no shared secret that was cached or
\* being derived before the wipe
C26_WipeReplacesAllKeys ==
  wipedAt.seq > 0 =>
    /\ signKeyPair \notin {0, wipedAt.sign}
    /\ boxKeyPair \notin {0, wipedAt.box}
    /\ signKeyPair # boxKeyPair
    /\ HeldFromBeforeWipe(channelKeys) = {}
    /\ HeldFromBeforeWipe(peerKeys) = {}


\* C27: while the coordinator is running, every heartbeat attempt, the first
\* one of startHeartbeat and every firing of the heartbeat timer, broadcasts
\* one HEARTBEAT message that carries the capabilities, the known peers and
\* the routing version of the local node.
C27_EveryHeartbeatBroadcasts ==
  \A k \in 1..Len(beats) :
    beats[k].running =>
      /\ beats[k].node # <<>>
      /\ Len(beats[k].sent) = 1
      /\ beats[k].sent[1].type = "HEARTBEAT"
      /\ beats[k].sent[1].nodeId = LocalId
      /\ beats[k].sent[1].payload =
           [capabilities |-> beats[k].node[1].capabilities,
            knownPeers |-> beats[k].node[1].knownPeers,
            routingVersion |-> beats[k].node[1].routingVersion]

\* C29: once destroy() was called on a coordinator, neither its heartbeat
\* timer nor its synchronization timer is active and no coordination message
\* of it goes out, also when destroy() was called while the initialisation
\* was waiting for the service worker.
C29_NothingRunsAfterDestroy ==
  destroyCalled =>
    /\ heartbeatInterval # "active"
    /\ syncInterval # "active"
    /\ \A k \in 1..Len(lifeSent) : ~lifeSent[k].afterDestroy

\* the client is about to handle a health alert of an analysis that found
\* two partitions or more
PartitionAlertAtHead ==
  /\ workerInbox # <<>>
  /\ Head(workerInbox).type = "mesh-health-alert"
  /\ \E k \in 1..Len(Head(workerInbox).payload.issues) :
       Head(workerInbox).payload.issues[k].type = "network-partition"

\* C30: when the mesh health analysis of the service worker finds more than
\* one network partition, the coordinator of a client of the worker
\* eventually emits a network-partition event, and it emits it in the step
\* in which it gets the alert of that analysis.
C30_PartitionAlertHandled ==
  /\ (partitionFound /\ serviceWorker = "active" /\ ~destroyCalled)
       ~> ("network-partition" \in lifeEmitted \/ destroyCalled)
  /\ [][(PartitionAlertAtHead /\ workerInbox' = Tail(workerInbox))
          => "network-partition" \in lifeEmitted']_vars

\* every coordinator that is followed holds every other one in its table
AllKnowAll ==
  \A i \in Coordinators : \A j \in Coordinators \ {i} : HasNode(nodes[i], j)

C32_TtlKept ==
  /\ phase \in {"encoded", "decoded"} =>
       \A i \in 1..Len(packets) : PacketTtl(packets[i]) = input.ttl
  /\ (phase = "decoded" /\ decoded.kind = "message") =>
       decoded.msg.ttl = input.ttl

\* C33: a packet decoded less than 2^16 ms after encode made it (encode runs
\* at StartTime) gives a message whose timestamp is the time of the encode,
\* which is not later than the time of the decode.
C33_TimestampRestored ==
  (phase = "decoded" /\ decoded.kind = "message" /\ now - StartTime < TS_MODULUS) =>
    /\ decoded.msg.timestamp = StartTime
    /\ decoded.msg.timestamp <= now

\* C34: every packet the codec makes, a key-exchange packet too, records a
\* fragment count of 1 or more, and every packet that is not a fragment
\* records the fragment index 0 and the fragment count 1.
C34_FragmentFields ==
  \A k \in 1..Len(packets) :
    /\ PacketFragmentCount(packets[k]) >= 1
    /\ PacketType(packets[k]) # TYPE_FRAGMENT =>
         /\ PacketFragmentIndex(packets[k]) = 0
         /\ PacketFragmentCount(packets[k]) = 1

\* every id, node or not, that the connections of the table join to its
\* first node, in either direction
ReachedFromFirst(table) ==
  LET joined == PeerLinks(table) \cup {<<d[2], d[1]>> : d \in PeerLinks(table)}
  IN  Within({table[1].id}, joined, GraphSize)

\* C40: isGraphDisconnected is true exactly when some node of the topology
\* is not reached from the first node over the connections, whether or not
\* the connections name ids that are no nodes of the topology.
C40_DisconnectedIffUnreached ==
  graphAnswer.op = "disconnected" =>
    (graphAnswer.value <=>
       \E id \in IdsOf(graphNodes) : id \notin ReachedFromFirst(graphNodes))

\* C38: the node table of a coordinator that is initialised and not
\* destroyed holds the entry of its own node id, whatever registrations at
\* capacity, sync responses and prunings it went through.
C38_OwnNodeKept ==
  \A i \in Coordinators : status[i] = "running" => HasNode(nodes[i], i)

\* ------------------------------------------------------------------------
\* Channel key cache claims
\* ------------------------------------------------------------------------

\* what decryptFromChannel makes of the data with the key a derivation from
\* exactly the channel name and the password gives
OpenedWithFreshKey(call) ==
  openWith(derivedKey(call.channelName, call.password), call.of.data)

\* C37: the key deriveChannelKey(name, password) returns is the key a fresh
\* derivation from that name and that password gives, whatever pairs were
\* derived and cached before: what encryptForChannel and decryptFromChannel
\* did with the key is what they do with the freshly derived one.
C37_CachedKeyIsDerivedKey ==
  /\ sealed # NotSealed =>
       sealed[1].data =
         sealWith(derivedKey(sealed[1].channelName, sealed[1].password),
                  sealed[1].message, decodeBase64(sealed[1].data.nonce))
  /\ opened.outcome # "none" =>
       /\ opened.outcome = OpenedWithFreshKey(opened).outcome
       /\ opened.value = OpenedWithFreshKey(opened).value

\* ------------------------------------------------------------------------
\* Scan mode claims
\* ------------------------------------------------------------------------

\* C39: while scanning is active, the discovery-scan timer that is armed
\* has the period of the optimizer's current mode, after every change of
\* the mode by an optimization cycle or by setScanMode.
C39_TimerFollowsMode ==
  (isScanning /\ scanInterval # <<>>) =>
    periods[scanInterval[1]] = currentMode.interval

\* connectToDevice and the disconnection events of the devices
SpecConnect == Init /\ [][NextConnect]_vars

\* C36: a device whose connection was established (service and
\* characteristic obtained, notifications started) is in the peer table
\* as long as it has not fired a disconnection event.
C36_EstablishedPeerKept ==
  \A k \in 1..Len(linkCalls) :
    (linkCalls[k].established /\ ~linkCalls[k].dropped)
      => linkCalls[k].device \in ConnectedIds

\* C31: an identifier that entered the dedup set is in the set until
\* DEDUP_TTL has passed since that entry, whatever was received, relayed or
\* disconnected in between.
C31_KeptForWindow ==
  \A id \in RelayIds :
    (added[id] >= 0 /\ now < added[id] + DEDUP_TTL) => id \in processedMessages

\* the message of the broadcastMessage call c went out whole to some peer:
\* over a WebRTC data channel, or packet by packet to a characteristic
ReachedSomePeer(c) ==
  \/ calls[c].status = "webrtc" /\ \E i \in 1..Len(calls[c].rtc) : calls[c].rtc[i]
  \/ /\ calls[c].status = "bluetooth"
     /\ \E k \in AttemptsOf(c) :
          /\ attempts[c][k].pkt = Len(calls[c].packets)
          /\ attempts[c][k].state = "written"

\* C35: a broadcastMessage call that has ended resolved exactly when the
\* message was written to the transport of at least one peer, and rejected
\* when it reached none.
C35_CompletesIffWritten ==
  \A c \in 1..Len(calls) :
    (calls[c].origin = "broadcast" /\ broadcastOutcome(c) # "running")
      => (broadcastOutcome(c) = "completed" <=> ReachedSomePeer(c))

=============================================================================
